---- MODULE Spec2Model ----
(***************************************************************************)
(* Model of the partner billing app: the vendor aggregation engine         *)
(* (src/utils/billingCalculations.ts) and the tenant discount overlay      *)
(* (hooks/useTenantDiscounts.ts and the discount persistence service).     *)
(*                                                                         *)
(* A JavaScript string is a sequence of one-character strings, so that     *)
(* trim, toLowerCase, includes and the regular expressions are computed    *)
(* character by character.  A JavaScript value of a numeric field is a     *)
(* record [k, n]: k is the result of typeof ("undefined" also stands for   *)
(* null where the code uses ?? or typeof), n the integer when k="number".  *)
(* Amounts are integers (minor units).                                     *)
(***************************************************************************)
EXTENDS Integers, Sequences, FiniteSets, TLC

VARIABLES
  subscriptions,  \* aggregateVendorsFromSubscriptions: the argument
  idx,            \* number of subscriptions the forEach has processed
  vendorMap,      \* the accumulator Map, in insertion order
  result,         \* the returned AggregatedVendor[] (<<>> before the return)
  pc,             \* "forEach" | "done" | "idle"
  discounts,      \* client: the react-query cache of GET /tenant-discounts
  db,             \* service: the tenant_discounts table
  net,            \* requests sent by the client and not yet handled
  calls,          \* the setDiscountRate calls made so far
  warnings,       \* console.warn calls of persist.catch so far
  response,       \* service: the answer to the last request handled
  api,            \* mappers: the API response being mapped
  mapped,         \* mappers: the mapped invoice or invoices (<<>> before)
  now,            \* the clock, as new Date().toISOString() gives it
  invoices,       \* metrics: the invoices argument
  metrics,        \* metrics: the returned BillingMetrics or AgingBuckets
  auth,           \* useAuthStore: accessToken, refreshToken, authError
  requests,       \* apiClient: the requests made, each with its position
  exchanges,      \* refresh-token exchanges in flight, by request
  health,         \* useApiHealthStore: status
  page            \* InvoiceDetailPage: customerSearch and wlFilter

aggVars == <<subscriptions, idx, vendorMap, result>>
discountVars == <<discounts, db, net, calls, warnings>>
mapperVars == <<api, mapped>>
metricsVars == <<invoices, metrics>>
authVars == <<auth, requests, exchanges, health>>
restVars == <<response, mapperVars, now, metricsVars, authVars, page>>
vars == <<aggVars, pc, discountVars, restVars>>

\* the parts of the program a run does not exercise
IdleService == response = <<>>
IdleMappers == api = <<>> /\ mapped = <<>>
IdleClock == now = <<>>
IdleMetrics == invoices = <<>> /\ metrics = <<>>
IdleAuth == auth = <<>> /\ requests = <<>> /\ exchanges = {} /\ health = <<>>
IdlePage == page = <<>>

(***************************************************************************)
(* Bounds                                                                  *)
(***************************************************************************)
MaxSubs == 2
MaxCalls == 2

(***************************************************************************)
(* Strings                                                                 *)
(***************************************************************************)
Undefined == <<"undefined">>

UpperAlpha ==
  <<"A","B","C","D","E","F","G","H","I","J","K","L","M",
    "N","O","P","Q","R","S","T","U","V","W","X","Y","Z">>

LowerAlpha ==
  <<"a","b","c","d","e","f","g","h","i","j","k","l","m",
    "n","o","p","q","r","s","t","u","v","w","x","y","z">>

SetMin(S) == CHOOSE x \in S : \A y \in S : x <= y
SetMax(S) == CHOOSE x \in S : \A y \in S : x >= y

IsSpace(c) == c = " "

toLowerCaseChar(c) ==
  IF \E i \in 1..26 : UpperAlpha[i] = c
  THEN LowerAlpha[CHOOSE i \in 1..26 : UpperAlpha[i] = c]
  ELSE c

toLowerCase(s) == [i \in 1..Len(s) |-> toLowerCaseChar(s[i])]

trim(s) ==
  LET keep == {i \in 1..Len(s) : ~IsSpace(s[i])}
  IN IF keep = {} THEN <<>> ELSE SubSeq(s, SetMin(keep), SetMax(keep))

\* the position after the run of white space that starts at i (\s*)
SkipSpaces(s, i) ==
  SetMin({j \in i..(Len(s) + 1) : j = Len(s) + 1 \/ ~IsSpace(s[j])})

includes(s, part) ==
  \E i \in 1..(Len(s) - Len(part) + 1) : SubSeq(s, i, i + Len(part) - 1) = part

\* s.replace(/\s+/g, " ")
RECURSIVE SquashSpaces(_)
SquashSpaces(s) ==
  IF s = <<>> THEN <<>>
  ELSE IF IsSpace(Head(s))
       THEN <<" ">> \o SquashSpaces(SubSeq(s, SkipSpaces(s, 1), Len(s)))
       ELSE <<Head(s)>> \o SquashSpaces(Tail(s))

\* truthiness of a string value: neither undefined nor ""
Truthy(s) == s # Undefined /\ s # <<>>

\* a || b on strings
OrElse(a, b) == IF Truthy(a) THEN a ELSE b

(***************************************************************************)
(* Numbers                                                                 *)
(***************************************************************************)
Undef == [k |-> "undefined", n |-> 0]
NonNumber == [k |-> "string", n |-> 0]
Num(i) == [k |-> "number", n |-> i]

NaN == [k |-> "NaN", n |-> 0]

\* typeof v === "number"
typeofNumber(v) == v.k \in {"number", "NaN"}

\* variant: += written as =
Plus_Assign(a, b) == b

\* a + b: string concatenation when an operand is a string, NaN when an
\* operand is undefined or NaN
Plus(a, b) ==
  IF a.k = "string" \/ b.k = "string" THEN NonNumber
  ELSE IF a.k = "number" /\ b.k = "number" THEN Num(a.n + b.n)
  ELSE NaN

\* a > 0
GreaterThanZero(a) == a.k = "number" /\ a.n > 0

\* a ?? b on numeric fields
Coalesce(a, b) == IF a.k \in {"undefined", "null"} THEN b ELSE a

(***************************************************************************)
(* Label normalisation                                                     *)
(***************************************************************************)
\* variant: the marker is matched in upper case only
stripNcePrefix_CaseSensitive(label) ==
  LET n == Len(label)
      a == SkipSpaces(label, 2)
      isNce == a + 2 <= n /\ SubSeq(label, a, a + 2) = <<"N", "C", "E">>
      b == SkipSpaces(label, a + 3)
      closed == b <= n /\ label[b] = ")"
      c == SkipSpaces(label, b + 1)
  IN IF n >= 1 /\ label[1] = "(" /\ isNce /\ closed
     THEN SubSeq(label, c, n)
     ELSE label

\* label.replace(/^\(\s*NCE\s*\)\s*/i, "")
stripNcePrefix(label) ==
  LET n == Len(label)
      a == SkipSpaces(label, 2)
      isNce == a + 2 <= n
               /\ toLowerCase(SubSeq(label, a, a + 2)) = <<"n", "c", "e">>
      b == SkipSpaces(label, a + 3)
      closed == b <= n /\ label[b] = ")"
      c == SkipSpaces(label, b + 1)
  IN IF n >= 1 /\ label[1] = "(" /\ isNce /\ closed
     THEN SubSeq(label, c, n)
     ELSE label

formatProductLabel(label) ==
  LET trimmed == trim(label)
      withoutPrefix == trim(stripNcePrefix(trimmed))
  IN IF Len(withoutPrefix) > 0 THEN withoutPrefix ELSE trimmed

normalizeLabel(label) ==
  toLowerCase(trim(SquashSpaces(formatProductLabel(label))))

\* variant: the four names tried in the reverse order
identifyVendorFromProduct_Reversed(productLabel) ==
  LET normalized == toLowerCase(productLabel)
  IN IF includes(normalized, <<"m","i","c","r","o","s","o","f","t">>)
       THEN <<"M","i","c","r","o","s","o","f","t">>
     ELSE IF includes(normalized, <<"a","d","o","b","e">>)
       THEN <<"A","d","o","b","e">>
     ELSE IF includes(normalized, <<"k","e","e","p","i","t">>)
       THEN <<"K","e","e","p","i","t">>
     ELSE IF includes(normalized, <<"e","x","c","l","a","i","m","e","r">>)
       THEN <<"E","x","c","l","a","i","m","e","r">>
     ELSE Undefined

identifyVendorFromProduct(productLabel) ==
  LET normalized == toLowerCase(productLabel)
  IN IF includes(normalized, <<"e","x","c","l","a","i","m","e","r">>)
       THEN <<"E","x","c","l","a","i","m","e","r">>
     ELSE IF includes(normalized, <<"k","e","e","p","i","t">>)
       THEN <<"K","e","e","p","i","t">>
     ELSE IF includes(normalized, <<"a","d","o","b","e">>)
       THEN <<"A","d","o","b","e">>
     ELSE IF includes(normalized, <<"m","i","c","r","o","s","o","f","t">>)
       THEN <<"M","i","c","r","o","s","o","f","t">>
     ELSE Undefined

shouldUseRetailAmount(vendorName) ==
  LET normalized == toLowerCase(vendorName)
  IN \/ includes(normalized, <<"k","e","e","p","i","t">>)
     \/ includes(normalized, <<"a","d","o","b","e">>)
     \/ includes(normalized, <<"m","i","c","r","o","s","o","f","t">>)

\* variant: the cost amount first for every vendor
getAmountForVendor_CostFirst(sub, vendorName) ==
  IF typeofNumber(sub.amount) THEN sub.amount
  ELSE IF typeofNumber(sub.retailAmount) THEN sub.retailAmount ELSE Num(0)

getAmountForVendor(sub, vendorName) ==
  LET prefersRetail == shouldUseRetailAmount(vendorName)
      hasRetail == typeofNumber(sub.retailAmount)
      hasAmount == typeofNumber(sub.amount)
  IN IF prefersRetail
     THEN IF hasRetail THEN sub.retailAmount
          ELSE IF hasAmount THEN sub.amount ELSE Num(0)
     ELSE IF hasAmount THEN sub.amount
          ELSE IF hasRetail THEN sub.retailAmount ELSE Num(0)

(***************************************************************************)
(* Map and Set, in insertion order                                         *)
(***************************************************************************)
MapHas(m, k) == \E i \in 1..Len(m) : m[i].key = k
MapIndex(m, k) == CHOOSE i \in 1..Len(m) : m[i].key = k
\* variant: an existing entry is not reused
MapGet_Fresh(m, k, default) == default

MapGet(m, k, default) == IF MapHas(m, k) THEN m[MapIndex(m, k)] ELSE default
\* variant: every set adds an entry
MapSet_Append(m, k, v) == Append(m, v)

MapSet(m, k, v) ==
  IF MapHas(m, k) THEN [m EXCEPT ![MapIndex(m, k)] = v] ELSE Append(m, v)

SetAdd(s, v) == IF \E i \in 1..Len(s) : s[i] = v THEN s ELSE Append(s, v)

\* Array.from(new Set(s)): the first occurrence of every value, in order
Unique(s) ==
  LET firsts == {i \in 1..Len(s) : \A j \in 1..(i - 1) : s[j] # s[i]}
      pos(i) == Cardinality({j \in firsts : j <= i})
  IN [p \in 1..Cardinality(firsts) |-> s[CHOOSE i \in firsts : pos(i) = p]]

(***************************************************************************)
(* localeCompare(b, "da") and Array.prototype.sort                         *)
(***************************************************************************)
\* primary order of the collation: white space, punctuation, symbols,
\* digits, letters; letter case is a tertiary difference
CollationOrder ==
  <<" ", ":", "(", ")", "|", "0", "1", "2", "3", "4", "5", "6", "7", "8", "9">>
  \o LowerAlpha

PrimaryWeight(c) ==
  CHOOSE i \in 1..Len(CollationOrder) : CollationOrder[i] = toLowerCaseChar(c)

\* Danish tailoring: upper case first
TertiaryWeight(c) == IF toLowerCaseChar(c) # c THEN 0 ELSE 1

LexCompare(x, y) ==
  LET m == IF Len(x) < Len(y) THEN Len(x) ELSE Len(y)
      d == {i \in 1..m : x[i] # y[i]}
  IN IF d = {}
     THEN (IF Len(x) < Len(y) THEN -1 ELSE IF Len(x) > Len(y) THEN 1 ELSE 0)
     ELSE IF x[SetMin(d)] < y[SetMin(d)] THEN -1 ELSE 1

localeCompare(a, b) ==
  LET p == LexCompare([i \in 1..Len(a) |-> PrimaryWeight(a[i])],
                      [i \in 1..Len(b) |-> PrimaryWeight(b[i])])
  IN IF p # 0 THEN p
     ELSE LexCompare([i \in 1..Len(a) |-> TertiaryWeight(a[i])],
                     [i \in 1..Len(b) |-> TertiaryWeight(b[i])])

\* variant: no sorting, the insertion order is kept
InsertSorted_Append(sorted, pair) == Append(sorted, pair)

\* Array.prototype.sort is stable: an item goes after the items that do not
\* compare greater than it.  pairs are [k |-> sort key, v |-> item].
InsertSorted(sorted, pair) ==
  LET n == Cardinality({i \in 1..Len(sorted) :
                          localeCompare(sorted[i].k, pair.k) <= 0})
  IN SubSeq(sorted, 1, n) \o <<pair>> \o SubSeq(sorted, n + 1, Len(sorted))

RECURSIVE SortPairs(_, _)
SortPairs(sorted, pairs) ==
  IF pairs = <<>> THEN sorted
  ELSE SortPairs(InsertSorted(sorted, Head(pairs)), Tail(pairs))

RECURSIVE Values(_)
Values(pairs) ==
  IF pairs = <<>> THEN <<>> ELSE <<Head(pairs).v>> \o Values(Tail(pairs))

(***************************************************************************)
(* aggregateVendorsFromSubscriptions                                       *)
(***************************************************************************)
STR_Product == <<"P","r","o","d","u","c","t">>
STR_LineItem == <<"L","i","n","e"," ","i","t","e","m">>
STR_Mixed == <<"M","i","x","e","d">>

\* s?.trim()
OptTrim(s) == IF s = Undefined THEN Undefined ELSE trim(s)

\* s ?? ""
OrEmpty(s) == IF s = Undefined THEN <<>> ELSE s

\* s || undefined
OrUndefined(s) == IF Truthy(s) THEN s ELSE Undefined

resolveVendorName(sub) ==
  OrElse(OptTrim(sub.billingTypeDescription),
    OrElse(identifyVendorFromProduct(
             OrElse(sub.description, OrElse(sub.nickname, STR_Product))),
      OrElse(sub.nickname, OrElse(sub.description, STR_Product))))

\* variant: the nickname before the description
rawProductLabelOf_NicknameFirst(sub) ==
  trim(OrElse(sub.nickname, OrElse(sub.description, STR_LineItem)))

rawProductLabelOf(sub) ==
  trim(OrElse(sub.description, OrElse(sub.nickname, STR_LineItem)))

\* variant: the rows are keyed by the label alone
detailKeyOf_LabelOnly(detailLabel, entry) == detailLabel

\* `${detailLabel}|${entry.billing ?? ""}|${entry.commitment ?? ""}`
detailKeyOf(detailLabel, entry) ==
  detailLabel \o <<"|">> \o OrEmpty(entry.billing)
              \o <<"|">> \o OrEmpty(entry.commitment)

\* the body of (sub.entries ?? []).forEach for one entry; acc is
\* [product |-> productEntry, sum |-> subscriptionEntryAmount]
processEntry(acc, entry, productLabel) ==
  LET pe == acc.product
      detailLabel == OrElse(OptTrim(entry.description), productLabel)
      detailKey == detailKeyOf(detailLabel, entry)
      detailEntry == MapGet(pe.detailsMap, detailKey,
                       [key |-> detailKey,
                        label |-> detailLabel,
                        billing |-> OrUndefined(entry.billing),
                        commitment |-> OrUndefined(entry.commitment),
                        licenses |-> Num(0),
                        amount |-> Num(0)])
      entryLicenses == Coalesce(entry.licensQuantity,
                         Coalesce(entry.quantity, Coalesce(entry.days, Num(0))))
      entryAmount == IF typeofNumber(entry.amount) THEN entry.amount ELSE Num(0)
      detailNext == [detailEntry EXCEPT
                       !.licenses = Plus(@, entryLicenses),
                       !.amount = Plus(@, entryAmount)]
  IN [product |->
        [pe EXCEPT
           !.billingValues =
              IF Truthy(entry.billing) THEN SetAdd(@, entry.billing) ELSE @,
           !.commitmentValues =
              IF Truthy(entry.commitment) THEN SetAdd(@, entry.commitment) ELSE @,
           !.detailsMap = MapSet(@, detailKey, detailNext)],
      sum |-> Plus(acc.sum, entryAmount)]

RECURSIVE processEntries(_, _, _)
processEntries(acc, entries, productLabel) ==
  IF entries = <<>> THEN acc
  ELSE processEntries(processEntry(acc, Head(entries), productLabel),
                      Tail(entries), productLabel)

\* variant: the entries are ignored
costContributionOf_SubOnly(subscriptionEntryAmount, subCostAmount) ==
  subCostAmount

costContributionOf(subscriptionEntryAmount, subCostAmount) ==
  IF GreaterThanZero(subscriptionEntryAmount)
  THEN subscriptionEntryAmount
  ELSE subCostAmount

\* the body of subscriptions.forEach for one subscription
processSubscription(vmap, sub) ==
  LET vendorName == resolveVendorName(sub)
      rawProductLabel == rawProductLabelOf(sub)
      productLabel == formatProductLabel(rawProductLabel)
      productKey == normalizeLabel(productLabel)
      vendorEntry == MapGet(vmap, vendorName,
                       [key |-> vendorName,
                        vendorName |-> vendorName,
                        totalLicenses |-> Num(0),
                        totalAmount |-> Num(0),
                        productsMap |-> <<>>])
      effectiveAmount == getAmountForVendor(sub, vendorName)
      licenses == Coalesce(sub.licensQuantity, Num(0))
      productEntry == MapGet(vendorEntry.productsMap, productKey,
                        [key |-> productKey,
                         displayName |-> productLabel,
                         licenses |-> Num(0),
                         amount |-> Num(0),
                         costAmount |-> Num(0),
                         billingValues |-> <<>>,
                         commitmentValues |-> <<>>,
                         detailsMap |-> <<>>])
      productSummed == [productEntry EXCEPT
                          !.licenses = Plus(@, licenses),
                          !.amount = Plus(@, effectiveAmount)]
      subCostAmount == IF typeofNumber(sub.amount) THEN sub.amount ELSE Num(0)
      acc == processEntries([product |-> productSummed, sum |-> Num(0)],
                            sub.entries, productLabel)
      costContribution == costContributionOf(acc.sum, subCostAmount)
      productNext == [acc.product EXCEPT
                        !.costAmount = Plus(@, costContribution)]
      vendorNext == [vendorEntry EXCEPT
                       !.totalLicenses = Plus(@, licenses),
                       !.totalAmount = Plus(@, effectiveAmount),
                       !.productsMap = MapSet(@, productKey, productNext)]
  IN MapSet(vmap, vendorName, vendorNext)

\* variant: the first tag seen instead of "Mixed"
resolveLabel_First(values) ==
  IF Len(values) = 0 THEN Undefined ELSE trim(values[1])

resolveLabel(values) ==
  IF Len(values) = 0 THEN Undefined
  ELSE LET normalized == [i \in 1..Len(values) |-> trim(values[i])]
           unique == Unique(normalized)
       IN IF Len(unique) = 1 THEN unique[1] ELSE STR_Mixed

mapDetail(d) ==
  [label |-> d.label, billing |-> d.billing, commitment |-> d.commitment,
   licenses |-> d.licenses, amount |-> d.amount]

\* Array.from(detailsMap.values()) paired with the sort key a.label
RECURSIVE detailPairs(_)
detailPairs(detailsMap) ==
  IF detailsMap = <<>> THEN <<>>
  ELSE <<[k |-> Head(detailsMap).label, v |-> mapDetail(Head(detailsMap))]>>
       \o detailPairs(Tail(detailsMap))

mapProduct(product) ==
  [displayName |-> product.displayName,
   licenses |-> product.licenses,
   amount |-> product.amount,
   costAmount |-> product.costAmount,
   billing |-> resolveLabel(product.billingValues),
   commitment |-> resolveLabel(product.commitmentValues),
   details |-> Values(SortPairs(<<>>, detailPairs(product.detailsMap)))]

RECURSIVE productPairs(_)
productPairs(productsMap) ==
  IF productsMap = <<>> THEN <<>>
  ELSE <<[k |-> Head(productsMap).displayName, v |-> mapProduct(Head(productsMap))]>>
       \o productPairs(Tail(productsMap))

mapVendor(vendor) ==
  [vendorName |-> vendor.vendorName,
   totalLicenses |-> vendor.totalLicenses,
   totalAmount |-> vendor.totalAmount,
   products |-> Values(SortPairs(<<>>, productPairs(vendor.productsMap)))]

RECURSIVE vendorPairs(_)
vendorPairs(vmap) ==
  IF vmap = <<>> THEN <<>>
  ELSE <<[k |-> Head(vmap).vendorName, v |-> mapVendor(Head(vmap))]>>
       \o vendorPairs(Tail(vmap))

\* the return statement: map and sort the three levels
finalize(vmap) == Values(SortPairs(<<>>, vendorPairs(vmap)))

RECURSIVE foldSubscriptions(_, _)
foldSubscriptions(vmap, subs) ==
  IF subs = <<>> THEN vmap
  ELSE foldSubscriptions(processSubscription(vmap, Head(subs)), Tail(subs))

\* the function as a whole, for comparing two calls
aggregateVendorsFromSubscriptions(subs) == finalize(foldSubscriptions(<<>>, subs))

(***************************************************************************)
(* Inputs                                                                  *)
(***************************************************************************)
Sub(bt, desc, nick, lic, amt, ret, entries) ==
  [billingTypeDescription |-> bt, description |-> desc, nickname |-> nick,
   licensQuantity |-> lic, amount |-> amt, retailAmount |-> ret,
   entries |-> entries]

Entry(desc, billing, commitment, lic, qty, amt, ret) ==
  [description |-> desc, billing |-> billing, commitment |-> commitment,
   licensQuantity |-> lic, quantity |-> qty, days |-> Undef,
   amount |-> amt, retailAmount |-> ret]

SeqsUpTo(S, n) == UNION {[1..k -> S] : k \in 0..n}

V_Keepit == <<"K","e","e","p","i","t">>
V_KeepitCloud == <<"K","e","e","p","i","t"," ","C","l","o","u","d">>
V_ADOBE == <<"x"," ","A","D","O","B","E">>
V_Microsoft == <<"M","i","c","r","o","s","o","f","t">>
V_Contoso == <<"C","o","n","t","o","s","o">>
V_Exclaimer == <<"E","x","c","l","a","i","m","e","r">>

L_Px == <<"P"," ","x">>
L_NcePx == <<"(","N","C","E",")"," ","P"," ","x">>
L_ncePx == <<"("," ","n","c","e"," ",")","P"," ","x">>
L_pX == <<"p"," ","X">>
L_PxWide == <<"P"," "," ","x">>
L_PxPadded == <<" ","P"," ","x"," ">>
L_NceNcePx == <<"(","N","C","E",")","(","N","C","E",")"," ","P"," ","x">>
L_NceOnly == <<"(","N","C","E",")">>
L_Q == <<"Q">>
L_Nick == <<"N","i","c","k">>

\* amounts: the vendor, both amounts present, absent or of another type
AmountInputs ==
  {Sub(bt, L_Px, L_Px, Num(2), amt, ret, <<>>) :
     bt \in {V_Keepit, V_Contoso},
     amt \in {Undef, NonNumber, Num(50)},
     ret \in {Undef, NonNumber, Num(120)}}
  \cup
  {Sub(V_ADOBE, L_Q, L_Nick, Undef, Num(10), Num(25), <<>>),
   Sub(V_KeepitCloud, L_Q, L_Nick, Num(3), Num(10), Num(25), <<>>),
   Sub(Undefined, V_Exclaimer \o <<" ">> \o V_Microsoft, L_Nick, Num(10),
       Num(100), Num(150), <<>>),
   Sub(V_Microsoft, L_Px, L_Px, Num(2), Num(200), Num(200), <<>>),
   Sub(V_Microsoft, L_NcePx, L_NcePx, Num(3), Num(300), Num(300), <<>>),
   Sub(V_Contoso, L_Q, L_Q, Num(1), Num(120), Num(0), <<>>)}

E_Amount(amt, ret) ==
  Entry(Undefined, Undefined, Undefined, Num(1), Undef, amt, ret)

\* entries with amounts: positive, zero, negative, absent, several
CostInputs ==
  {Sub(bt, L_Px, L_Px, Num(1), Num(50), Num(120), es) :
     bt \in {V_Keepit, V_Contoso},
     es \in {<<>>,
             <<E_Amount(Num(30), Num(70))>>,
             <<E_Amount(Num(0), Num(70))>>,
             <<E_Amount(Num(0 - 5), Undef)>>,
             <<E_Amount(Undef, Num(70))>>,
             <<Entry(L_Q, Undefined, Undefined, Undef, Num(2), Num(30), Undef),
               Entry(L_Q, Undefined, Undefined, Undef, Undef, Num(20), Num(9))>>}}
  \cup
  {Sub(bt, L_Px, L_Px, Num(1), Undef, ret, es) :
     bt \in {V_Keepit, V_Contoso},
     ret \in {Undef, Num(80)},
     es \in {<<>>, <<E_Amount(Num(30), Num(70))>>}}

T_M == <<"M">>
T_MPadded == <<"M", " ">>
T_Y == <<"Y">>
T_Blank == <<" ">>

E_Tagged(desc, billing, commitment) ==
  Entry(desc, billing, commitment, Num(1), Undef, Num(4), Undef)

\* labels: the marker, letter case, white space; two vendors; detail rows
LabelInputs ==
  {Sub(V_Contoso, d, L_Nick, Num(1), Num(10), Num(20), <<>>) :
     d \in {L_Px, L_NcePx, L_ncePx, L_pX, L_PxWide, L_PxPadded, L_NceNcePx,
            L_NceOnly, L_Q}}
  \cup
  {Sub(V_Keepit, L_NcePx, L_Nick, Num(2), Num(10), Num(20), <<>>),
   Sub(V_Keepit, L_pX, L_Nick, Num(3), Num(10), Num(20), <<>>),
   Sub(V_Contoso, <<>>, L_NcePx, Num(1), Num(10), Num(20), <<>>),
   Sub(V_Contoso, L_Px, L_Nick, Num(1), Num(10), Num(20),
       <<E_Tagged(Undefined, T_M, Undefined)>>),
   Sub(V_Contoso, L_pX, L_Nick, Num(1), Num(10), Num(20),
       <<E_Tagged(Undefined, T_Y, Undefined)>>),
   Sub(V_Contoso, L_Px, L_Nick, Num(1), Num(10), Num(20),
       <<E_Tagged(L_Q, T_Y, T_M)>>),
   Sub(V_Contoso, L_NcePx, L_Nick, Num(1), Num(10), Num(20),
       <<E_Tagged(L_Q, T_M, T_M)>>)}

D_ExclaimerMicrosoft == V_Exclaimer \o <<" ">> \o V_Microsoft
D_ExclaimerSignatures ==
  V_Exclaimer \o <<" ","S","i","g","n","a","t","u","r","e","s">>
D_KEEPIT == <<"K","E","E","P","I","T"," ","x">>
D_adobe == <<"x"," ","a","d","o","b","e">>
N_microsoft == <<"m","i","c","r","o","s","o","f","t"," ","n">>
V_Blank == <<" ", " ">>
V_KeepitPadded == <<" ">> \o V_Keepit \o <<" ">>

\* vendor resolution: billing type absent, empty, blank or padded; a known
\* vendor in the description or in the nickname; neither
VendorInputs ==
  {Sub(Undefined, d, n, Num(1), Num(100), Num(150), <<>>) :
     d \in {D_ExclaimerMicrosoft, D_KEEPIT, D_adobe, L_Px, <<>>},
     n \in {<<>>, L_Nick, N_microsoft}}
  \cup
  {Sub(Undefined, D_ExclaimerSignatures, L_Nick, Num(10), Num(100), Num(150), <<>>),
   Sub(Undefined, Undefined, Undefined, Num(1), Num(100), Num(150), <<>>),
   Sub(<<>>, L_Px, L_Nick, Num(1), Num(100), Num(150), <<>>),
   Sub(V_Blank, L_Px, L_Nick, Num(1), Num(100), Num(150), <<>>),
   Sub(V_Blank, D_KEEPIT, <<>>, Num(1), Num(100), Num(150), <<>>),
   Sub(V_KeepitPadded, L_Px, L_Nick, Num(1), Num(100), Num(150), <<>>),
   Sub(V_Contoso, D_ExclaimerMicrosoft, L_Nick, Num(1), Num(100), Num(150), <<>>)}

\* billing and commitment tags: absent, empty, blank, padded, equal, different
TagInputs ==
  {Sub(V_Contoso, L_Px, L_Nick, Num(1), Num(10), Num(20), es) :
     es \in {<<>>,
             <<E_Tagged(Undefined, Undefined, Undefined)>>,
             <<E_Tagged(Undefined, <<>>, <<>>)>>,
             <<E_Tagged(Undefined, T_M, Undefined)>>,
             <<E_Tagged(Undefined, T_MPadded, T_Y)>>,
             <<E_Tagged(Undefined, T_Y, T_MPadded)>>,
             <<E_Tagged(Undefined, T_Blank, Undefined)>>,
             <<E_Tagged(Undefined, T_M, T_Y), E_Tagged(L_Q, T_M, T_Y)>>,
             <<E_Tagged(Undefined, T_M, T_M), E_Tagged(L_Q, T_Y, T_M)>>,
             <<E_Tagged(Undefined, T_M, T_Y), E_Tagged(L_Q, T_MPadded, T_Blank)>>,
             <<E_Tagged(Undefined, T_M, Undefined), E_Tagged(L_Q, Undefined, T_Y)>>}}
  \cup
  {Sub(V_Contoso, L_Q, L_Nick, Num(1), Num(10), Num(20),
       <<E_Tagged(Undefined, T_M, T_Y)>>),
   Sub(V_Keepit, L_NcePx, L_Nick, Num(1), Num(10), Num(20),
       <<E_Tagged(Undefined, T_Y, T_Y)>>)}

(***************************************************************************)
(* The run of one call of aggregateVendorsFromSubscriptions                *)
(***************************************************************************)
InitAggregate(inputs) ==
  /\ subscriptions \in SeqsUpTo(inputs, MaxSubs)
  /\ idx = 0
  /\ vendorMap = <<>>
  /\ result = <<>>
  /\ pc = "forEach"
  /\ discounts = <<>>
  /\ db = <<>>
  /\ net = {}
  /\ calls = 0 /\ warnings = 0
  /\ IdleService /\ IdleMappers /\ IdleClock /\ IdleMetrics /\ IdleAuth /\ IdlePage

ForEachSubscription ==
  /\ pc = "forEach"
  /\ idx < Len(subscriptions)
  /\ vendorMap' = processSubscription(vendorMap, subscriptions[idx + 1])
  /\ idx' = idx + 1
  /\ UNCHANGED <<subscriptions, result, pc, discountVars, restVars>>

Return ==
  /\ pc = "forEach"
  /\ idx = Len(subscriptions)
  /\ result' = finalize(vendorMap)
  /\ pc' = "done"
  /\ UNCHANGED <<subscriptions, idx, vendorMap, discountVars, restVars>>

NextAggregate == ForEachSubscription \/ Return

InitAmounts == InitAggregate(AmountInputs)
SpecAmounts == InitAmounts /\ [][NextAggregate]_vars

InitCosts == InitAggregate(CostInputs)
SpecCosts == InitCosts /\ [][NextAggregate]_vars

InitLabels == InitAggregate(LabelInputs)
SpecLabels == InitLabels /\ [][NextAggregate]_vars

InitVendors == InitAggregate(VendorInputs)
SpecVendors == InitVendors /\ [][NextAggregate]_vars

InitTags == InitAggregate(TagInputs)
SpecTags == InitTags /\ [][NextAggregate]_vars

(***************************************************************************)
(* Tenant discounts: the useTenantDiscounts hook and the discount service. *)
(* A rate is a JavaScript value whose number counts thousandths of a       *)
(* percent (33456 is 33.456), so that rounding to two decimals is visible. *)
(***************************************************************************)
Null == [k |-> "null", n |-> 0]

\* variant: no clamping
clampRate_Unclamped(value) == value

\* Math.min(100, Math.max(0, value))
clampRate(value) ==
  IF value < 0 THEN 0 ELSE IF value > 100000 THEN 100000 ELSE value

\* Math.round(value * 100) / 100, exact on thousandths
roundToCents(value) == ((value + 5) \div 10) * 10

STR_vendor == <<"v","e","n","d","o","r">>
STR_product == <<"p","r","o","d","u","c","t">>

makeProductKey(vendorName, productName) ==
  toLowerCase((IF vendorName = Undefined THEN STR_vendor ELSE vendorName)
              \o <<":", ":">>
              \o (IF productName = Undefined THEN STR_product ELSE productName))

EmptyState == <<>>

\* state[tenantId]?.[productKey]; Undef when absent
Lookup(state, tenantId, productKey) ==
  IF <<tenantId, productKey>> \in DOMAIN state
  THEN Num(state[<<tenantId, productKey>>])
  ELSE Undef

Without(state, tenantId, productKey) ==
  [q \in DOMAIN state \ {<<tenantId, productKey>>} |-> state[q]]

\* variant: the rate replaces the products of the tenant
With_WholeTenant(state, tenantId, productKey, rate) ==
  [q \in {r \in DOMAIN state : r[1] # tenantId} \cup {<<tenantId, productKey>>} |->
     IF q = <<tenantId, productKey>> THEN rate ELSE state[q]]

With(state, tenantId, productKey, rate) ==
  [q \in DOMAIN state \cup {<<tenantId, productKey>>} |->
     IF q = <<tenantId, productKey>> THEN rate ELSE state[q]]

getDiscountRateIn(state, tenantId, vendorName, productName) ==
  IF ~Truthy(tenantId) THEN Undef
  ELSE Lookup(state, tenantId, makeProductKey(vendorName, productName))

getDiscountRate(tenantId, vendorName, productName) ==
  getDiscountRateIn(discounts, tenantId, vendorName, productName)

Request(type, id, tenantId, vendorName, productName, rate) ==
  [type |-> type, id |-> id, tenantId |-> tenantId, vendorName |-> vendorName,
   productName |-> productName, rate |-> rate, snapshot |-> EmptyState]

GetRequest == Request("GET", 0, <<>>, <<>>, <<>>, Null)
GetResponse(state) == [GetRequest EXCEPT !.type = "GET_RESPONSE", !.snapshot = state]

\* setDiscountRate: the optimistic update of the cache, then PUT or DELETE
setDiscountRate(tenantId, vendorName, productName, rate) ==
  /\ pc = "idle"
  /\ calls < MaxCalls
  /\ calls' = calls + 1
  /\ IF ~Truthy(tenantId)
     THEN UNCHANGED <<discounts, net>>
     ELSE LET productKey == makeProductKey(vendorName, productName)
              normalizedRate == IF rate.k \in {"null", "NaN"} THEN Null
                                ELSE Num(roundToCents(clampRate(rate.n)))
          IN /\ discounts' =
                  IF normalizedRate = Null
                  THEN Without(discounts, tenantId, productKey)
                  ELSE With(discounts, tenantId, productKey, normalizedRate.n)
             /\ net' = net \cup
                  {Request(IF normalizedRate = Null THEN "DELETE" ELSE "PUT",
                           calls + 1, tenantId, vendorName, productName,
                           normalizedRate)}
  /\ UNCHANGED <<db, warnings, pc, aggVars, restVars>>

\* the discount service
service_clampRate(value) ==
  IF value < 0 THEN 0 ELSE IF value > 100000 THEN 100000 ELSE value

service_makeProductKey(vendorName, productName) ==
  toLowerCase((IF vendorName = Undefined THEN STR_vendor ELSE vendorName)
              \o <<":", ":">>
              \o (IF productName = Undefined THEN STR_product ELSE productName))

\* typeof x === "string" ? x.trim() : ""
TrimmedString(x) == IF x = Undefined THEN <<>> ELSE trim(x)

parseBody(body) ==
  [tenantId |-> TrimmedString(body.tenantId),
   vendorName |-> TrimmedString(body.vendorName),
   productName |-> TrimmedString(body.productName),
   rate |-> IF body.rate.k = "number"
            THEN Num(roundToCents(service_clampRate(body.rate.n))) ELSE Null]

\* the answer of a handler: the status and the rows of the table after it
Answer(status, rows) == [status |-> status, rows |-> rows]

\* !tenantId || !vendorName || !productName
MissingName(b) == b.tenantId = <<>> \/ b.vendorName = <<>> \/ b.productName = <<>>

\* getStmt.get(tenantId, productKey)
Existing(rows, tenantId, productKey) == <<tenantId, productKey>> \in DOMAIN rows

\* app.post: 400, 409 for an existing rate, else the insert and 201
app_post(rows, body) ==
  LET b == parseBody(body)
      productKey == service_makeProductKey(b.vendorName, b.productName)
  IN IF MissingName(b) \/ b.rate = Null THEN Answer(400, rows)
     ELSE IF Existing(rows, b.tenantId, productKey) THEN Answer(409, rows)
     ELSE Answer(201, With(rows, b.tenantId, productKey, b.rate.n))

\* variant: PATCH stores the rate whether or not one exists
app_patch_Upsert(rows, body) ==
  LET b == parseBody(body)
      productKey == service_makeProductKey(b.vendorName, b.productName)
  IN IF MissingName(b) \/ b.rate = Null THEN Answer(400, rows)
     ELSE Answer(200, With(rows, b.tenantId, productKey, b.rate.n))

\* app.patch: 400, 404 for a missing rate, else the update and 200
app_patch(rows, body) ==
  LET b == parseBody(body)
      productKey == service_makeProductKey(b.vendorName, b.productName)
  IN IF MissingName(b) \/ b.rate = Null THEN Answer(400, rows)
     ELSE IF ~Existing(rows, b.tenantId, productKey) THEN Answer(404, rows)
     ELSE Answer(200, With(rows, b.tenantId, productKey, b.rate.n))

\* app.put: 400 for an invalid payload, else the upsert and 200
app_put(rows, body) ==
  LET b == parseBody(body)
      productKey == service_makeProductKey(b.vendorName, b.productName)
  IN IF MissingName(b) \/ b.rate = Null THEN Answer(400, rows)
     ELSE Answer(200, With(rows, b.tenantId, productKey, b.rate.n))

\* app.delete: 400 for an invalid payload, else the delete and 204
app_delete(rows, body) ==
  LET b == parseBody(body)
      productKey == service_makeProductKey(b.vendorName, b.productName)
  IN IF MissingName(b) THEN Answer(400, rows)
     ELSE Answer(204, Without(rows, b.tenantId, productKey))

\* the service handles a PUT of the client; !response.ok fails the write
ServicePut ==
  \E m \in net :
    /\ pc = "idle"
    /\ m.type = "PUT"
    /\ LET answer == app_put(db, m)
       IN /\ db' = answer.rows
          /\ net' = IF answer.status >= 400
                    THEN (net \ {m}) \cup {[m EXCEPT !.type = "FAILED"]}
                    ELSE net \ {m}
    /\ UNCHANGED <<discounts, calls, warnings, pc, aggVars, restVars>>

\* the service handles a DELETE of the client
ServiceDelete ==
  \E m \in net :
    /\ pc = "idle"
    /\ m.type = "DELETE"
    /\ LET answer == app_delete(db, m)
       IN /\ db' = answer.rows
          /\ net' = IF answer.status >= 400
                    THEN (net \ {m}) \cup {[m EXCEPT !.type = "FAILED"]}
                    ELSE net \ {m}
    /\ UNCHANGED <<discounts, calls, warnings, pc, aggVars, restVars>>

\* app.get: the rows as {tenant: {productKey: rate}}
mapRowsToState(rows) == rows

ServiceGet ==
  /\ pc = "idle"
  /\ GetRequest \in net
  /\ net' = (net \ {GetRequest}) \cup {GetResponse(mapRowsToState(db))}
  /\ UNCHANGED <<discounts, db, calls, warnings, pc, aggVars, restVars>>

\* a PUT or DELETE that does not reach the service: fetch rejects
RequestFails ==
  \E m \in net :
    /\ pc = "idle"
    /\ m.type \in {"PUT", "DELETE"}
    /\ net' = (net \ {m}) \cup {[m EXCEPT !.type = "FAILED"]}
    /\ UNCHANGED <<discounts, db, calls, warnings, pc, aggVars, restVars>>

InFlightGets == {m \in net : m.type \in {"GET", "GET_RESPONSE"}}

\* variant: the warning only, no invalidateQueries
PersistCatch_WarnOnly ==
  \E m \in net :
    /\ pc = "idle"
    /\ m.type = "FAILED"
    /\ warnings' = warnings + 1
    /\ net' = net \ {m}
    /\ UNCHANGED <<discounts, db, calls, pc, aggVars, restVars>>

\* persist.catch: the warning, then invalidateQueries, which drops a fetch
\* in flight and fetches again
PersistCatch ==
  \E m \in net :
    /\ pc = "idle"
    /\ m.type = "FAILED"
    /\ warnings' = warnings + 1
    /\ net' = ((net \ {m}) \ InFlightGets) \cup {GetRequest}
    /\ UNCHANGED <<discounts, db, calls, pc, aggVars, restVars>>

\* useQuery: the fetch on mount
fetchDiscounts ==
  /\ pc = "idle"
  /\ InFlightGets = {}
  /\ net' = net \cup {GetRequest}
  /\ UNCHANGED <<discounts, db, calls, warnings, pc, aggVars, restVars>>

\* fetchDiscounts rejects or answers with an error status: the query keeps
\* its data
FetchFails ==
  /\ pc = "idle"
  /\ InFlightGets # {}
  /\ net' = net \ InFlightGets
  /\ UNCHANGED <<discounts, db, calls, warnings, pc, aggVars, restVars>>

\* useQuery: the fetched state replaces the cache
FetchSettled ==
  \E m \in net :
    /\ pc = "idle"
    /\ m.type = "GET_RESPONSE"
    /\ discounts' = m.snapshot
    /\ net' = net \ {m}
    /\ UNCHANGED <<db, calls, warnings, pc, aggVars, restVars>>

(***************************************************************************)
(* The invoice page: the rates are read and written for the vendors and    *)
(* products of the aggregated invoice of a customer.                       *)
(***************************************************************************)
T_1 == <<"t", "1">>
N_NickPadded == <<"N","i","c","k"," ">>

\* an invoice with a billing type and one whose vendor is its nickname
InvoiceInput ==
  <<Sub(V_Keepit, L_Q, Undefined, Num(1), Num(50), Num(120), <<>>),
    Sub(Undefined, Undefined, N_NickPadded, Num(1), Num(10), Num(25), <<>>)>>

\* customer.id, absent before the invoice is loaded
TenantInputs == {T_1, Undefined}

\* 33.456, 150, -5 and the cleared or unparsable input
RateInputs == {Null, NaN, Num(33456), Num(150000), Num(0 - 5000)}

\* the (vendor.vendorName, product.displayName) rows the page renders
RenderedRows ==
  {<<result[v].vendorName, result[v].products[p].displayName>> :
     <<v, p>> \in {q \in (DOMAIN result) \X (1..MaxSubs + 1) :
                     q[2] \in DOMAIN result[q[1]].products}}

InitDiscount ==
  /\ subscriptions = InvoiceInput
  /\ idx = Len(InvoiceInput)
  /\ vendorMap = foldSubscriptions(<<>>, InvoiceInput)
  /\ result = aggregateVendorsFromSubscriptions(InvoiceInput)
  /\ pc = "idle"
  /\ discounts = EmptyState
  /\ db = EmptyState
  /\ net = {}
  /\ calls = 0 /\ warnings = 0
  /\ IdleService /\ IdleMappers /\ IdleClock /\ IdleMetrics /\ IdleAuth /\ IdlePage

CallSetDiscountRate ==
  \E tenantId \in TenantInputs, row \in RenderedRows, rate \in RateInputs :
    setDiscountRate(tenantId, row[1], row[2], rate)

NextDiscount ==
  \/ CallSetDiscountRate
  \/ ServicePut
  \/ ServiceDelete
  \/ ServiceGet
  \/ RequestFails
  \/ PersistCatch
  \/ fetchDiscounts
  \/ FetchFails
  \/ FetchSettled

SpecDiscount == InitDiscount /\ [][NextDiscount]_vars

(***************************************************************************)
(* Properties of the aggregation                                           *)
(***************************************************************************)
RECURSIVE SumOver(_, _)
SumOver(I, f) ==
  IF I = {} THEN 0
  ELSE LET i == CHOOSE x \in I : TRUE IN f[i] + SumOver(I \ {i}, f)

RECURSIVE SumSeq(_)
SumSeq(s) == IF s = <<>> THEN 0 ELSE Head(s) + SumSeq(Tail(s))

SubIndices == 1..Len(subscriptions)
SubVendor(i) == resolveVendorName(subscriptions[i])
SubKey(i) == normalizeLabel(formatProductLabel(rawProductLabelOf(subscriptions[i])))
SubsOfVendor(v) == {i \in SubIndices : SubVendor(i) = v.vendorName}
SubsOfProduct(v, p) ==
  {i \in SubsOfVendor(v) : SubKey(i) = normalizeLabel(p.displayName)}

IsNumber(x) == x.k = "number"
NumberOrZero(x) == IF IsNumber(x) THEN x.n ELSE 0

RetailVendorWords ==
  {<<"k","e","e","p","i","t">>, <<"a","d","o","b","e">>,
   <<"m","i","c","r","o","s","o","f","t">>}

NamesRetailVendor(vendorName) ==
  \E w \in RetailVendorWords : includes(toLowerCase(vendorName), w)

\* the amount the claims call the vendor-basis amount of a subscription
VendorBasisAmount(sub, vendorName) ==
  IF NamesRetailVendor(vendorName)
  THEN IF IsNumber(sub.retailAmount) THEN sub.retailAmount.n
       ELSE NumberOrZero(sub.amount)
  ELSE IF IsNumber(sub.amount) THEN sub.amount.n
       ELSE NumberOrZero(sub.retailAmount)

BasisOf(v) ==
  [i \in SubIndices |-> VendorBasisAmount(subscriptions[i], v.vendorName)]

LicensesOf == [i \in SubIndices |-> NumberOrZero(subscriptions[i].licensQuantity)]

\* C1: a subscription of a vendor whose name contains keepit, adobe or
\* microsoft contributes its retail amount (its cost amount when the retail
\* amount is absent or not a number) to the product amount and to the vendor
\* totalAmount; a subscription of any other vendor contributes its cost
\* amount (its retail amount when the cost amount is absent or not a number).
C1_AmountBasis ==
  pc = "done" =>
    /\ \A i \in SubIndices :
         \E vi \in 1..Len(result) : result[vi].vendorName = SubVendor(i)
    /\ \A vi \in 1..Len(result) :
         LET v == result[vi] IN
           /\ v.totalAmount = Num(SumOver(SubsOfVendor(v), BasisOf(v)))
           /\ \A pi \in 1..Len(v.products) :
                v.products[pi].amount =
                  Num(SumOver(SubsOfProduct(v, v.products[pi]), BasisOf(v)))

\* C1 witness: Keepit cost 50 / retail 120 gives 120 next to Contoso
\* cost 50 / retail 120 giving 50
C1_Witness ==
  /\ pc = "done"
  /\ Len(subscriptions) = 2
  /\ \A i \in SubIndices :
       subscriptions[i].amount = Num(50) /\ subscriptions[i].retailAmount = Num(120)
  /\ \E vi, vj \in 1..Len(result) :
       /\ result[vi].vendorName = V_Keepit
       /\ result[vi].totalAmount = Num(120)
       /\ result[vi].products[1].amount = Num(120)
       /\ result[vj].vendorName = V_Contoso
       /\ result[vj].totalAmount = Num(50)
       /\ result[vj].products[1].amount = Num(50)

\* C3: the subscriptions of one vendor whose labels normalize to the same
\* key end in exactly one product; its licenses and amount are the sums of
\* their license quantities and vendor-basis amounts, and the vendor totals
\* include every subscription of the vendor.
C3_Consolidation ==
  pc = "done" =>
    \A vi \in 1..Len(result) :
      LET v == result[vi] IN
        /\ v.totalLicenses = Num(SumOver(SubsOfVendor(v), LicensesOf))
        /\ v.totalAmount = Num(SumOver(SubsOfVendor(v), BasisOf(v)))
        /\ \A i \in SubsOfVendor(v) :
             LET same == {pi \in 1..Len(v.products) :
                            normalizeLabel(v.products[pi].displayName) = SubKey(i)}
                 merged == {j \in SubsOfVendor(v) : SubKey(j) = SubKey(i)}
             IN /\ Cardinality(same) = 1
                /\ \A pi \in same :
                     /\ v.products[pi].licenses = Num(SumOver(merged, LicensesOf))
                     /\ v.products[pi].amount = Num(SumOver(merged, BasisOf(v)))

\* C3 witness: two Microsoft subscriptions, 2 and 3 licences, 200 and 300,
\* one of them labelled with the (NCE) marker: one product, 5 licences, 500
C3_Witness ==
  /\ pc = "done"
  /\ Len(subscriptions) = 2
  /\ subscriptions[1] # subscriptions[2]
  /\ Len(result) = 1
  /\ result[1].vendorName = V_Microsoft
  /\ Len(result[1].products) = 1
  /\ result[1].products[1].licenses = Num(5)
  /\ result[1].products[1].amount = Num(500)
  /\ result[1].totalLicenses = Num(5)
  /\ result[1].totalAmount = Num(500)

EntryAmounts(sub) ==
  [e \in 1..Len(sub.entries) |-> NumberOrZero(sub.entries[e].amount)]

EntriesCarryAmounts(sub) ==
  \E e \in 1..Len(sub.entries) : IsNumber(sub.entries[e].amount)

\* the cost of a subscription as C2 states it
CostAsClaimed(sub) ==
  IF EntriesCarryAmounts(sub)
  THEN SumSeq(EntryAmounts(sub))
  ELSE NumberOrZero(sub.amount)

\* the cost of a subscription as C2 is amended
CostAsAmended(sub) ==
  IF SumSeq(EntryAmounts(sub)) > 0
  THEN SumSeq(EntryAmounts(sub))
  ELSE NumberOrZero(sub.amount)

\* the same subscriptions with other retail amounts, entries included
WithRetail(subs, r) ==
  [i \in 1..Len(subs) |->
     [subs[i] EXCEPT
        !.retailAmount = r,
        !.entries = [e \in 1..Len(subs[i].entries) |->
                       [subs[i].entries[e] EXCEPT !.retailAmount = r]]]]

\* the same subscriptions billed under another vendor
WithVendor(subs, bt) ==
  [i \in 1..Len(subs) |-> [subs[i] EXCEPT !.billingTypeDescription = bt]]

CostAmounts(res) ==
  [vi \in 1..Len(res) |->
     [pi \in 1..Len(res[vi].products) |-> res[vi].products[pi].costAmount]]

CostIgnoresRetail ==
  /\ \A r \in {Undef, Num(7)} :
       CostAmounts(aggregateVendorsFromSubscriptions(
                     WithRetail(subscriptions, r))) = CostAmounts(result)
  /\ CostAmounts(aggregateVendorsFromSubscriptions(
                   WithVendor(subscriptions, V_Keepit)))
     = CostAmounts(aggregateVendorsFromSubscriptions(
                     WithVendor(subscriptions, V_Contoso)))

\* C2 as stated: the costAmount of a product is the sum over its
\* subscriptions of the cost-basis amount, or of the sum of the entries'
\* amounts when the entries carry amounts, whatever the vendor and the
\* retail amounts are.
C2_CostAsStated ==
  pc = "done" =>
    /\ CostIgnoresRetail
    /\ \A vi \in 1..Len(result) : \A pi \in 1..Len(result[vi].products) :
         LET v == result[vi]
             p == v.products[pi]
             cost == [i \in SubIndices |-> CostAsClaimed(subscriptions[i])]
         IN p.costAmount = Num(SumOver(SubsOfProduct(v, p), cost))

\* C2 amended: the costAmount of a product is the sum over its
\* subscriptions of the sum of the entries' amounts when that sum is greater
\* than zero and of the subscription's cost amount otherwise, whatever the
\* vendor and the retail amounts are.
C2_CostNeverBasisSwitched ==
  pc = "done" =>
    /\ CostIgnoresRetail
    /\ \A vi \in 1..Len(result) : \A pi \in 1..Len(result[vi].products) :
         LET v == result[vi]
             p == v.products[pi]
             cost == [i \in SubIndices |-> CostAsAmended(subscriptions[i])]
         IN p.costAmount = Num(SumOver(SubsOfProduct(v, p), cost))

\* C2 witness: a Keepit product billed at retail 120 + 120 whose costAmount
\* is 50 from the subscription without entry amounts plus 30 + 20 from the
\* entries of the other
C2_Witness ==
  /\ pc = "done"
  /\ Len(subscriptions) = 2
  /\ Len(subscriptions[1].entries) = 2
  /\ subscriptions[2].entries = <<>>
  /\ subscriptions[2].amount = Num(50)
  /\ Len(result) = 1
  /\ result[1].vendorName = V_Keepit
  /\ result[1].products[1].amount = Num(240)
  /\ result[1].products[1].costAmount = Num(100)

(***************************************************************************)
(* Labels                                                                  *)
(***************************************************************************)
SubLabel(i) ==
  OrElse(subscriptions[i].description,
         OrElse(subscriptions[i].nickname, STR_LineItem))

\* a leading "(NCE)" marker, any letter case, white space inside
MarkerEnd(label) ==
  LET a == SkipSpaces(label, 2)
      b == SkipSpaces(label, a + 3)
  IN IF /\ Len(label) >= 1 /\ label[1] = "("
        /\ a + 2 <= Len(label)
        /\ toLowerCase(SubSeq(label, a, a + 2)) = <<"n", "c", "e">>
        /\ b <= Len(label) /\ label[b] = ")"
     THEN b ELSE 0

HasMarker(label) == MarkerEnd(trim(label)) > 0

\* the label without its leading marker and the white space around it
WithoutMarker(label) ==
  LET l == trim(label)
  IN IF MarkerEnd(l) > 0 THEN trim(SubSeq(l, MarkerEnd(l) + 1, Len(l))) ELSE l

\* two labels differ only by a leading marker, white space or letter case
DifferOnlyByMarkerSpaceCase(a, b) ==
  toLowerCase(SquashSpaces(WithoutMarker(a)))
    = toLowerCase(SquashSpaces(WithoutMarker(b)))

\* the label holds text after at most one leading marker
PlainLabel(label) ==
  WithoutMarker(label) # <<>> /\ ~HasMarker(WithoutMarker(label))

FirstOfProduct(v, p) == SetMin(SubsOfProduct(v, p))

MergedAsPair(i, j) ==
  LET r == aggregateVendorsFromSubscriptions(<<subscriptions[i], subscriptions[j]>>)
  IN /\ Len(r) = 1
     /\ Len(r[1].products) = 1
     /\ r[1].products[1].licenses = Num(LicensesOf[i] + LicensesOf[j])

\* C4 as stated: two subscriptions of one vendor whose labels differ only by
\* a leading (NCE) marker, white space or letter case fall into one product,
\* and a label with the marker is displayed without it.
C4_MarkerAsStated ==
  pc = "done" =>
    /\ \A i, j \in SubIndices :
         (/\ i # j
          /\ SubVendor(i) = SubVendor(j)
          /\ DifferOnlyByMarkerSpaceCase(SubLabel(i), SubLabel(j)))
         => MergedAsPair(i, j)
    /\ \A vi \in 1..Len(result) : \A pi \in 1..Len(result[vi].products) :
         LET p == result[vi].products[pi]
             first == SubLabel(FirstOfProduct(result[vi], p))
         IN HasMarker(first) => p.displayName = WithoutMarker(first)

\* C4 amended: the same for labels that hold text after at most one leading
\* marker; a label that is the marker alone is displayed as it is.
C4_MarkerStripped ==
  pc = "done" =>
    /\ \A i, j \in SubIndices :
         (/\ i # j
          /\ SubVendor(i) = SubVendor(j)
          /\ PlainLabel(SubLabel(i)) /\ PlainLabel(SubLabel(j))
          /\ DifferOnlyByMarkerSpaceCase(SubLabel(i), SubLabel(j)))
         => MergedAsPair(i, j)
    /\ \A vi \in 1..Len(result) : \A pi \in 1..Len(result[vi].products) :
         LET p == result[vi].products[pi]
             first == SubLabel(FirstOfProduct(result[vi], p))
         IN /\ (HasMarker(first) /\ WithoutMarker(first) # <<>>)
                => p.displayName = WithoutMarker(first)
            /\ (HasMarker(first) /\ WithoutMarker(first) = <<>>)
                => p.displayName = trim(first)

\* C4 witness: "(NCE) P x" then "P x" of one vendor: one product "P x"
C4_Witness ==
  /\ pc = "done"
  /\ Len(subscriptions) = 2
  /\ subscriptions[1].description = L_NcePx
  /\ subscriptions[2].description = L_Px
  /\ Len(result) = 1
  /\ Len(result[1].products) = 1
  /\ result[1].products[1].displayName = L_Px
  /\ result[1].products[1].licenses = Num(2)

(***************************************************************************)
(* Order of the input                                                      *)
(***************************************************************************)
IndexPermutations(n) ==
  {f \in [1..n -> 1..n] : \A a, b \in 1..n : f[a] = f[b] => a = b}

Permuted(s, f) == [i \in 1..Len(s) |-> s[f[i]]]

Range(s) == {s[i] : i \in 1..Len(s)}

\* a result without what depends on the first label seen: products by their
\* normalized name, as a set; detail rows as a set
OrderFreeProduct(p) ==
  [name |-> normalizeLabel(p.displayName), licenses |-> p.licenses,
   amount |-> p.amount, costAmount |-> p.costAmount, billing |-> p.billing,
   commitment |-> p.commitment, details |-> Range(p.details)]

OrderFree(res) ==
  [vi \in 1..Len(res) |->
     [vendorName |-> res[vi].vendorName,
      totalLicenses |-> res[vi].totalLicenses,
      totalAmount |-> res[vi].totalAmount,
      products |-> {OrderFreeProduct(res[vi].products[pi]) :
                      pi \in 1..Len(res[vi].products)}]]

NonEmpty(s) == s # Undefined /\ s # <<>>

KnownVendors == <<V_Exclaimer, V_Keepit, <<"A","d","o","b","e">>, V_Microsoft>>

\* rule (b): the first known vendor, in priority order, whose name is a
\* substring of the label whatever the letter case
KnownVendorIn(label) ==
  LET hits == {k \in 1..Len(KnownVendors) :
                 includes(toLowerCase(label), toLowerCase(KnownVendors[k]))}
  IN IF hits = {} THEN Undefined ELSE KnownVendors[SetMin(hits)]

RulesBToE(sub) ==
  LET label == IF NonEmpty(sub.description) THEN sub.description
               ELSE IF NonEmpty(sub.nickname) THEN sub.nickname ELSE <<>>
  IN IF KnownVendorIn(label) # Undefined THEN KnownVendorIn(label)
     ELSE IF NonEmpty(sub.nickname) THEN sub.nickname
     ELSE IF NonEmpty(sub.description) THEN sub.description
     ELSE STR_Product

\* the vendor as C6 states it
VendorAsClaimed(sub) ==
  IF NonEmpty(sub.billingTypeDescription)
  THEN sub.billingTypeDescription
  ELSE RulesBToE(sub)

\* the vendor as C6 is amended
VendorAsAmended(sub) ==
  IF sub.billingTypeDescription # Undefined
     /\ trim(sub.billingTypeDescription) # <<>>
  THEN trim(sub.billingTypeDescription)
  ELSE RulesBToE(sub)

ResultVendors == {result[vi].vendorName : vi \in 1..Len(result)}

\* C6 as stated: the vendor of a subscription is (a) its billing-type
\* description when non-empty, else (b) the known vendor named in the
\* product label, else (c) its nickname, else (d) its description, else
\* (e) "Product".
C6_VendorAsStated ==
  pc = "done" =>
    ResultVendors = {VendorAsClaimed(subscriptions[i]) : i \in SubIndices}

\* C6 amended: rule (a) is the billing-type description with the
\* surrounding white space removed, when that is non-empty; rules (b) to (e)
\* as stated.
C6_VendorResolution ==
  pc = "done" =>
    ResultVendors = {VendorAsAmended(subscriptions[i]) : i \in SubIndices}

\* C6 witness: no billing type, description "Exclaimer Signatures": the
\* vendor is "Exclaimer" and, not being a retail vendor, is billed at cost
C6_Witness ==
  /\ pc = "done"
  /\ Len(subscriptions) = 1
  /\ subscriptions[1].billingTypeDescription = Undefined
  /\ subscriptions[1].description = D_ExclaimerSignatures
  /\ Len(result) = 1
  /\ result[1].vendorName = V_Exclaimer
  /\ result[1].totalAmount = Num(100)

(***************************************************************************)
(* Billing and commitment labels                                           *)
(***************************************************************************)
BillingOf(e) == e.billing
CommitmentOf(e) == e.commitment

\* the non-empty tags of the entries merged into product p of vendor v
TagsOfProduct(v, p, Tag(_)) ==
  UNION {{Tag(subscriptions[i].entries[e]) :
            e \in 1..Len(subscriptions[i].entries)} :
         i \in SubsOfProduct(v, p)}
  \ {Undefined, <<>>}

TheOne(S) == CHOOSE x \in S : TRUE

\* the label as C7 states it
LabelAsClaimed(tags) ==
  IF tags = {} THEN Undefined
  ELSE IF Cardinality(tags) = 1 THEN TheOne(tags)
  ELSE STR_Mixed

\* the label as C7 is amended: tags are compared without the white space
\* around them
LabelAsAmended(tags) ==
  LET trimmed == {trim(x) : x \in tags}
  IN IF tags = {} THEN Undefined
     ELSE IF Cardinality(trimmed) = 1 THEN TheOne(trimmed)
     ELSE STR_Mixed

\* C7 as stated: the billing label of a product, and its commitment label,
\* is the common value when all non-empty tags of its entries agree, "Mixed"
\* when two of them disagree, absent when no entry carries a non-empty tag.
C7_LabelAsStated ==
  pc = "done" =>
    \A vi \in 1..Len(result) : \A pi \in 1..Len(result[vi].products) :
      LET v == result[vi]
          p == v.products[pi]
      IN /\ p.billing = LabelAsClaimed(TagsOfProduct(v, p, BillingOf))
         /\ p.commitment = LabelAsClaimed(TagsOfProduct(v, p, CommitmentOf))

\* C7 amended: the same with the tags compared, and the common value
\* given, without the white space around them.
C7_ResolvedLabel ==
  pc = "done" =>
    \A vi \in 1..Len(result) : \A pi \in 1..Len(result[vi].products) :
      LET v == result[vi]
          p == v.products[pi]
      IN /\ p.billing = LabelAsAmended(TagsOfProduct(v, p, BillingOf))
         /\ p.commitment = LabelAsAmended(TagsOfProduct(v, p, CommitmentOf))

\* C7 witness: one product of two subscriptions whose entries agree on the
\* commitment, disagree on the billing; and a product without any tag
C7_Witness ==
  /\ pc = "done"
  /\ Len(subscriptions) = 2
  /\ Len(result) = 1
  /\ Len(result[1].products) = 1
  /\ TagsOfProduct(result[1], result[1].products[1], BillingOf) = {T_M, T_Y}
  /\ TagsOfProduct(result[1], result[1].products[1], CommitmentOf) = {T_M}
  /\ result[1].products[1].billing = STR_Mixed
  /\ result[1].products[1].commitment = T_M

(***************************************************************************)
(* Properties of the tenant discounts                                      *)
(***************************************************************************)
CachedRates == {discounts[q] : q \in DOMAIN discounts}

\* what a numeric rate is to be stored as: in [0,100], two decimals, and the
\* nearest such value to the rate brought into [0,100]
IsStoredRateOf(stored, rate) ==
  /\ stored \in 0..100000
  /\ stored % 10 = 0
  /\ LET inRange == SetMax({0, SetMin({100000, rate})})
     IN stored - 5 <= inRange /\ inRange < stored + 5

SetRateStores(tenantId, vendorName, productName, rate) ==
  setDiscountRate(tenantId, vendorName, productName, rate) =>
    LET after == getDiscountRateIn(discounts', tenantId, vendorName, productName)
    IN /\ rate = Num(33456) => after = Num(33460)
       /\ rate = Num(150000) => after = Num(100000)
       /\ rate.k = "number" => after.k = "number" /\ IsStoredRateOf(after.n, rate.n)
       /\ rate.k \in {"null", "NaN"} => after = Undef

\* C8: setDiscountRate for a tenant with a numeric rate leaves that rate,
\* clamped to [0,100] and rounded to two decimals, as what getDiscountRate
\* returns for the same tenant, vendor and product (33.456 gives 33.46, 150
\* gives 100); with null or NaN it leaves getDiscountRate returning absent;
\* and every rate in the cache, written or fetched, lies in [0,100] with at
\* most two decimals.
C8_RateStored ==
  /\ [][\A row \in RenderedRows, rate \in RateInputs :
          SetRateStores(T_1, row[1], row[2], rate)]_vars
  /\ [](\A r \in CachedRates : r \in 0..100000 /\ r % 10 = 0)

\* 33.456 was written and sent as 33.46, then the override was removed
C8_Witness ==
  /\ calls = 2
  /\ Request("PUT", 1, T_1, V_Keepit, L_Q, Num(33460)) \in net
  /\ Request("DELETE", 2, T_1, V_Keepit, L_Q, Null) \in net
  /\ getDiscountRate(T_1, V_Keepit, L_Q) = Undef

\* the discount key of the product a subscription renders as when its label
\* is the first seen
DiscountKeyOf(i) ==
  makeProductKey(SubVendor(i),
                 formatProductLabel(rawProductLabelOf(subscriptions[i])))

\* C9: two subscriptions of one vendor are merged into the same product if
\* and only if their labels yield the same discount key.
C9_KeyAsStated ==
  pc = "done" =>
    \A i \in SubIndices, j \in SubIndices :
      SubVendor(i) = SubVendor(j) =>
        ((SubKey(i) = SubKey(j)) <=> (DiscountKeyOf(i) = DiscountKeyOf(j)))

\* the key under which the service stores the rate of a PUT
ServiceKeyOf(m) ==
  LET b == parseBody(m)
  IN <<b.tenantId, service_makeProductKey(b.vendorName, b.productName)>>

\* the key getDiscountRate looks up for the arguments of the call
ClientKeyOf(m) == <<m.tenantId, makeProductKey(m.vendorName, m.productName)>>

\* C10: for every PUT that setDiscountRate sends, the key under which the
\* service stores the rate is the key getDiscountRate looks up for the same
\* tenant, vendor and product.
C10_KeyAsStated ==
  \A m \in net : m.type = "PUT" => ServiceKeyOf(m) = ClientKeyOf(m)

(***************************************************************************)
(* The invoice mappers: mapInvoiceDetail and mapInvoice.  The date and     *)
(* invoicing-type fields of an entry, which are copied as they are, are    *)
(* left out.                                                               *)
(***************************************************************************)
\* an optional array: absent, or its items
NoArray == [k |-> "undefined", items |-> <<>>]
Arr(items) == [k |-> "array", items |-> items]

\* a ?? b on strings
Nullish(a, b) == IF a = Undefined THEN b ELSE a

\* a * b on numbers
Times(a, b) ==
  IF a.k = "number" /\ b.k = "number" THEN Num(a.n * b.n) ELSE NaN

\* the decimal digits of a small index, as a template literal prints it
DigitsOf(i) ==
  <<<<"0">>, <<"1">>, <<"2">>, <<"3">>, <<"4">>,
    <<"5">>, <<"6">>, <<"7">>, <<"8">>, <<"9">>>>[i + 1]

STR_Item == <<"I","t","e","m">>
STR_entry == <<"-","e","n","t","r","y","-">>
STR_connector == <<"-","c","o","n","n","e","c","t","o","r","-">>

TenantEntryApi(productId, skuId, description, nickname, licensQuantity, quantity, days, unitPrice, retailUnitPrice, amount, retailAmount, billing, commitment) ==
  [productId |-> productId, skuId |-> skuId, description |-> description,
   nickname |-> nickname, licensQuantity |-> licensQuantity,
   quantity |-> quantity, days |-> days, unitPrice |-> unitPrice,
   retailUnitPrice |-> retailUnitPrice, amount |-> amount,
   retailAmount |-> retailAmount, billing |-> billing,
   commitment |-> commitment]

buildEntry(entry, fallbackId, fallbackDescription) ==
  [productId |-> Nullish(entry.productId, fallbackId),
   skuId |-> Nullish(entry.skuId, fallbackId),
   description |-> Nullish(entry.description, fallbackDescription),
   nickname |-> Nullish(entry.nickname,
                        Nullish(entry.description, fallbackDescription)),
   licensQuantity |-> Coalesce(entry.licensQuantity,
                               Coalesce(entry.quantity, Num(0))),
   quantity |-> entry.quantity,
   days |-> entry.days,
   unitPrice |-> entry.unitPrice,
   retailUnitPrice |-> entry.retailUnitPrice,
   amount |-> Coalesce(entry.amount, Num(0)),
   retailAmount |-> Coalesce(entry.retailAmount, Num(0)),
   billing |-> entry.billing,
   commitment |-> entry.commitment]

RECURSIVE mapSubscriptionEntries(_, _, _, _)
mapSubscriptionEntries(subEntries, subId, subDescription, idx0) ==
  IF subEntries = <<>> THEN <<>>
  ELSE LET entry == Head(subEntries)
       IN <<buildEntry(entry,
                       Nullish(entry.productId,
                         Nullish(entry.skuId,
                                 subId \o STR_entry \o DigitsOf(idx0))),
                       Nullish(entry.description,
                         Nullish(entry.nickname,
                           Nullish(subDescription, STR_LineItem))))>>
          \o mapSubscriptionEntries(Tail(subEntries), subId, subDescription,
                                    idx0 + 1)

\* variant: the number of entries
sumEntryLicenses_Count(entries) == Num(Len(entries))

RECURSIVE sumEntryLicenses(_)
sumEntryLicenses(entries) ==
  IF entries = <<>> THEN Num(0)
  ELSE LET last == entries[Len(entries)]
       IN Plus(sumEntryLicenses(SubSeq(entries, 1, Len(entries) - 1)),
               Coalesce(last.licensQuantity, Coalesce(last.quantity, Num(0))))

\* a || b on numbers
NumberOrElse(a, b) == IF a.k = "number" /\ a.n # 0 THEN a ELSE b

\* variant: the billing type of the line is not copied
SubscriptionBreakdown_Bare(id, description, nickname, licensQuantity, amount, retailAmount, line, entries) ==
  [id |-> id, description |-> description, nickname |-> nickname,
   licensQuantity |-> licensQuantity, amount |-> amount,
   retailAmount |-> retailAmount,
   billingTypeId |-> Undefined,
   billingTypeDescription |-> Undefined,
   entries |-> entries]

SubscriptionBreakdown(id, description, nickname, licensQuantity, amount, retailAmount, line, entries) ==
  [id |-> id, description |-> description, nickname |-> nickname,
   licensQuantity |-> licensQuantity, amount |-> amount,
   retailAmount |-> retailAmount,
   billingTypeId |-> line.billingTypeId,
   billingTypeDescription |-> line.billingTypeDescription,
   entries |-> entries]

\* tenant.subscriptions.map(...)
RECURSIVE fromSubscriptions(_, _)
fromSubscriptions(subs, line) ==
  IF subs = <<>> THEN <<>>
  ELSE LET sub == Head(subs)
           entries == mapSubscriptionEntries(sub.entries.items, sub.id,
                                             sub.description, 0)
           derivedLicenses == sumEntryLicenses(entries)
           fallbackLicenses ==
             NumberOrElse(derivedLicenses,
                          IF Len(entries) > 0 THEN Num(Len(entries)) ELSE Num(0))
       IN <<SubscriptionBreakdown(sub.id, sub.description, sub.nickname,
              Coalesce(sub.licensQuantity, fallbackLicenses),
              sub.amount, sub.retailAmount, line, entries)>>
          \o fromSubscriptions(Tail(subs), line)

\* (tenant.entries ?? []).map(...)
RECURSIVE directEntries(_, _, _, _)
directEntries(entries, tenant, line, idx0) ==
  IF entries = <<>> THEN <<>>
  ELSE LET entry == Head(entries)
           description ==
             Nullish(entry.description,
               Nullish(entry.nickname,
                 Nullish(tenant.productDescription,
                   Nullish(line.description,
                     Nullish(line.billingTypeDescription, STR_Item)))))
           fallbackId ==
             Nullish(entry.productId,
               Nullish(entry.skuId, tenant.id \o STR_entry \o DigitsOf(idx0)))
       IN <<SubscriptionBreakdown(fallbackId, description,
              Nullish(entry.nickname, description),
              Coalesce(entry.licensQuantity, Coalesce(entry.quantity, Num(0))),
              Coalesce(entry.amount, Num(0)),
              Coalesce(entry.retailAmount, Num(0)),
              line, <<buildEntry(entry, fallbackId, description)>>)>>
          \o directEntries(Tail(entries), tenant, line, idx0 + 1)

\* (tenant.connectors ?? []).map(...)
RECURSIVE connectorSubscriptions(_, _, _, _)
connectorSubscriptions(connectors, tenant, line, idx0) ==
  IF connectors = <<>> THEN <<>>
  ELSE LET connector == Head(connectors)
           rawQuantity == Coalesce(connector.quantity, tenant.quantity)
           rawUnitPrice == Coalesce(connector.unitPrice, tenant.unitPrice)
           rawRetailUnitPrice ==
             Coalesce(connector.retailUnitPrice, tenant.retailUnitPrice)
           quantity == Coalesce(rawQuantity, Num(0))
           unitPrice == Coalesce(rawUnitPrice, Num(0))
           retailUnitPrice == Coalesce(rawRetailUnitPrice, Num(0))
           amount ==
             Coalesce(connector.amount,
                      IF rawQuantity # Undef /\ rawUnitPrice # Undef
                      THEN Times(quantity, unitPrice) ELSE Num(0))
           retailAmount ==
             Coalesce(connector.retailAmount,
                      IF rawQuantity # Undef /\ rawRetailUnitPrice # Undef
                      THEN Times(quantity, retailUnitPrice) ELSE Num(0))
           description ==
             Nullish(connector.description,
               Nullish(tenant.productDescription,
                 Nullish(line.description,
                   Nullish(line.billingTypeDescription, STR_Product))))
           fallbackId ==
             Nullish(connector.id,
               Nullish(tenant.productId,
                       tenant.id \o STR_connector \o DigitsOf(idx0)))
           connectorEntry ==
             TenantEntryApi(Nullish(tenant.productId, connector.id),
                            connector.id, description, description, quantity,
                            quantity, Undef, unitPrice, retailUnitPrice,
                            amount, retailAmount, Undefined, Undefined)
       IN <<SubscriptionBreakdown(fallbackId, description, description,
              quantity, amount, retailAmount, line,
              <<buildEntry(connectorEntry, fallbackId, description)>>)>>
          \o connectorSubscriptions(Tail(connectors), tenant, line, idx0 + 1)

\* the subscription synthesized from the tenant's own fields
fallbackSubscription(tenant, line) ==
  LET fallbackDescription ==
        Nullish(tenant.productDescription,
          Nullish(line.description,
            Nullish(line.billingTypeDescription,
              Nullish(tenant.name, STR_Item))))
      fallbackId == Nullish(tenant.productId, tenant.id)
  IN <<SubscriptionBreakdown(fallbackId, fallbackDescription,
         fallbackDescription,
         Coalesce(tenant.quantity, Num(0)),
         Coalesce(tenant.amount, Num(0)),
         Coalesce(tenant.retailAmount, Num(0)),
         line,
         <<buildEntry(
             TenantEntryApi(tenant.productId, Undefined, fallbackDescription,
                            fallbackDescription, tenant.quantity,
                            tenant.quantity, Undef, tenant.unitPrice,
                            tenant.retailUnitPrice, tenant.amount,
                            tenant.retailAmount, Undefined, Undefined),
             fallbackId, fallbackDescription)>>)>>

\* variant: the connectors are tried before the entries
mapSubscriptions_ConnectorsFirst(tenant, line) ==
  IF Len(tenant.subscriptions.items) > 0
  THEN fromSubscriptions(tenant.subscriptions.items, line)
  ELSE IF Len(tenant.connectors.items) > 0
  THEN connectorSubscriptions(tenant.connectors.items, tenant, line, 0)
  ELSE IF Len(tenant.entries.items) > 0
  THEN directEntries(tenant.entries.items, tenant, line, 0)
  ELSE fallbackSubscription(tenant, line)

mapSubscriptions(tenant, line) ==
  IF tenant.subscriptions.k = "array" /\ Len(tenant.subscriptions.items) > 0
  THEN fromSubscriptions(tenant.subscriptions.items, line)
  ELSE IF Len(directEntries(tenant.entries.items, tenant, line, 0)) > 0
  THEN directEntries(tenant.entries.items, tenant, line, 0)
  ELSE IF Len(connectorSubscriptions(tenant.connectors.items, tenant, line, 0)) > 0
  THEN connectorSubscriptions(tenant.connectors.items, tenant, line, 0)
  ELSE fallbackSubscription(tenant, line)

mapTenant(tenant, line) ==
  [id |-> tenant.id, name |-> tenant.name,
   amount |-> Coalesce(tenant.amount, Num(0)),
   retailAmount |-> Coalesce(tenant.retailAmount, Num(0)),
   subscriptions |-> mapSubscriptions(tenant, line)]

RECURSIVE mapLineTenants(_, _)
mapLineTenants(lineTenants, line) ==
  IF lineTenants = <<>> THEN <<>>
  ELSE <<mapTenant(Head(lineTenants), line)>>
       \o mapLineTenants(Tail(lineTenants), line)

\* inv.lines.flatMap(...)
RECURSIVE flatMapLines(_)
flatMapLines(lines) ==
  IF lines = <<>> THEN <<>>
  ELSE mapLineTenants(Head(lines).tenants.items, Head(lines))
       \o flatMapLines(Tail(lines))

\* the characters of ISO dates in the order of their UTF-16 code units
CodeUnitOrder ==
  <<" ", "-", ".", "0", "1", "2", "3", "4", "5", "6", "7", "8", "9", ":",
    "T", "Z">>

CodeUnit(c) == CHOOSE i \in 1..Len(CodeUnitOrder) : CodeUnitOrder[i] = c

\* a < b on strings
RECURSIVE StringLess(_, _)
StringLess(a, b) ==
  IF b = <<>> THEN FALSE
  ELSE IF a = <<>> THEN TRUE
  ELSE IF Head(a) = Head(b) THEN StringLess(Tail(a), Tail(b))
  ELSE CodeUnit(Head(a)) < CodeUnit(Head(b))

\* s.slice(0, n)
slice(s, n) == SubSeq(s, 1, IF Len(s) < n THEN Len(s) ELSE n)

\* variant: an invoice due today is overdue
mapStatus_DueTodayOverdue(remainingAmountIncludingVAT, dueDate) ==
  IF remainingAmountIncludingVAT = Num(0) THEN "Paid"
  ELSE IF ~StringLess(slice(now, 10), dueDate) THEN "Overdue" ELSE "Unpaid"

\* useInvoiceDetail.ts
mapStatus(remainingAmountIncludingVAT, dueDate) ==
  IF remainingAmountIncludingVAT = Num(0) THEN "Paid"
  ELSE LET today == slice(now, 10)
       IN IF StringLess(dueDate, today) THEN "Overdue" ELSE "Unpaid"

\* useInvoices.ts
useInvoices_mapStatus(inv) ==
  IF inv.remainingAmountIncludingVAT = Num(0) THEN "Paid"
  ELSE LET today == slice(now, 10)
       IN IF StringLess(inv.dueDate, today) THEN "Overdue" ELSE "Unpaid"

RECURSIVE mapLines(_)
mapLines(lines) ==
  IF lines = <<>> THEN <<>>
  ELSE <<[description |-> Head(lines).description,
          amount |-> Head(lines).lineAmount,
          billingTypeId |-> Head(lines).billingTypeId,
          billingTypeDescription |-> Head(lines).billingTypeDescription]>>
       \o mapLines(Tail(lines))

mapInvoiceDetail(response_) ==
  LET inv == response_.invoice
      tenants == flatMapLines(inv.lines)
  IN [invoiceNumber |-> inv.invoiceNo,
      postingDate |-> inv.postingDate,
      amount |-> inv.amount,
      amountInclVat |-> inv.amountIncludingVAT,
      dueDate |-> inv.dueDate,
      status |-> mapStatus(inv.remainingAmountIncludingVAT, inv.dueDate),
      lines |-> mapLines(inv.lines),
      tenants |-> IF Len(tenants) # 0 THEN Arr(tenants) ELSE NoArray]

mapInvoice(inv) ==
  [invoiceNumber |-> inv.invoiceNo,
   postingDate |-> inv.postingDate,
   amount |-> inv.amount,
   amountInclVat |-> inv.amountIncludingVAT,
   dueDate |-> inv.dueDate,
   status |-> useInvoices_mapStatus(inv)]

RECURSIVE mapInvoices(_)
mapInvoices(list) ==
  IF list = <<>> THEN <<>>
  ELSE <<mapInvoice(Head(list))>> \o mapInvoices(Tail(list))

(***************************************************************************)
(* Dates.  An ISO date is the string yyyy-MM-dd, a timestamp the string    *)
(* yyyy-MM-ddTHH:00:00.000Z; a Date is its time in hours since the epoch.  *)
(***************************************************************************)
DigitChars == <<"0", "1", "2", "3", "4", "5", "6", "7", "8", "9">>
IsDigit(c) == \E i \in 1..10 : DigitChars[i] = c
DigitValue(c) == (CHOOSE i \in 1..10 : DigitChars[i] = c) - 1

Pad2(n) == <<DigitChars[(n \div 10) + 1], DigitChars[(n % 10) + 1]>>

\* the string of a date and of a timestamp at a full hour
IsoDate(y, m, d) ==
  Pad2(y \div 100) \o Pad2(y % 100) \o <<"-">> \o Pad2(m) \o <<"-">> \o Pad2(d)

IsoTimestamp(y, m, d, h) ==
  IsoDate(y, m, d) \o <<"T">> \o Pad2(h)
    \o <<":", "0", "0", ":", "0", "0", ".", "0", "0", "0", "Z">>

\* the days from 1970-01-01 to the civil date y-m-d
DaysFromCivil(y, m, d) ==
  LET yy == IF m <= 2 THEN y - 1 ELSE y
      era == yy \div 400
      yoe == yy - era * 400
      mp == IF m > 2 THEN m - 3 ELSE m + 9
      doy == ((153 * mp + 2) \div 5) + d - 1
      doe == yoe * 365 + (yoe \div 4) - (yoe \div 100) + doy
  IN era * 146097 + doe - 719468

\* new Date(iso).getTime(), in hours: NaN for a string that is no date
DateParse(iso) ==
  IF /\ Len(iso) >= 10
     /\ \A i \in {1, 2, 3, 4, 6, 7, 9, 10} : IsDigit(iso[i])
     /\ iso[5] = "-" /\ iso[8] = "-"
     /\ (Len(iso) > 10 =>
           Len(iso) >= 13 /\ iso[11] = "T" /\ IsDigit(iso[12]) /\ IsDigit(iso[13]))
  THEN LET y == DigitValue(iso[1]) * 1000 + DigitValue(iso[2]) * 100
                + DigitValue(iso[3]) * 10 + DigitValue(iso[4])
           m == DigitValue(iso[6]) * 10 + DigitValue(iso[7])
           d == DigitValue(iso[9]) * 10 + DigitValue(iso[10])
           h == IF Len(iso) > 10
                THEN DigitValue(iso[12]) * 10 + DigitValue(iso[13]) ELSE 0
       IN IF m \in 1..12 /\ d \in 1..31 /\ h \in 0..23
          THEN Num(DaysFromCivil(y, m, d) * 24 + h)
          ELSE NaN
  ELSE NaN

(***************************************************************************)
(* The run of one query of useInvoiceDetail or of useInvoices              *)
(***************************************************************************)
MaxLines == 2
MaxInvoices == 2

ApiEntry(productId, description, licensQuantity, quantity, amount) ==
  TenantEntryApi(productId, Undefined, description, Undefined, licensQuantity,
                 quantity, Undef, Undef, Undef, amount, Undef, Undefined,
                 Undefined)

E_1 == ApiEntry(<<"e", "1">>, <<"E", "n", "t", "r", "y">>, Num(2), Undef, Num(10))
E_2 == ApiEntry(Undefined, Undefined, Undef, Num(3), Undef)

ApiSubscription(id, description, licensQuantity, amount, entries) ==
  [id |-> id, description |-> description, nickname |-> description,
   licensQuantity |-> licensQuantity, amount |-> amount,
   retailAmount |-> Num(amount.n * 2), entries |-> entries]

S_1 == ApiSubscription(<<"s", "1">>, <<"S", "u", "b">>, Undef, Num(40),
                       Arr(<<E_1, E_2>>))
S_2 == ApiSubscription(<<"s", "2">>, L_Q, Num(3), Num(60), NoArray)

ApiConnector(id, description, quantity, unitPrice, amount) ==
  [id |-> id, description |-> description, quantity |-> quantity,
   unitPrice |-> unitPrice, retailUnitPrice |-> Undef, amount |-> amount,
   retailAmount |-> Undef]

C_1 == ApiConnector(<<"c", "1">>, <<"C", "o", "n", "n">>, Num(2), Num(7), Undef)
C_2 == ApiConnector(Undefined, Undefined, Undef, Undef, Num(9))

ApiTenant(id, productId, productDescription, subs, entries, connectors) ==
  [id |-> id, name |-> <<"N">> \o id, productId |-> productId,
   productDescription |-> productDescription, quantity |-> Num(4),
   unitPrice |-> Num(5), retailUnitPrice |-> Undef, amount |-> Num(20),
   retailAmount |-> Num(30), subscriptions |-> subs, entries |-> entries,
   connectors |-> connectors]

\* every combination of absent, empty and non-empty sources
ApiTenantInputs ==
  {ApiTenant(<<"t", "1">>, p[1], p[2], subs, entries, connectors) :
     p \in {<<Undefined, Undefined>>, <<<<"p">>, <<"P", "D">>>>},
     subs \in {NoArray, Arr(<<>>), Arr(<<S_1>>), Arr(<<S_1, S_2>>)},
     entries \in {NoArray, Arr(<<>>), Arr(<<E_1>>), Arr(<<E_2, E_1>>)},
     connectors \in {NoArray, Arr(<<>>), Arr(<<C_1>>), Arr(<<C_2, C_1>>)}}

ApiLine(description, billingTypeId, billingTypeDescription, tenants) ==
  [description |-> description, lineAmount |-> Num(100),
   billingTypeId |-> billingTypeId,
   billingTypeDescription |-> billingTypeDescription, tenants |-> tenants]

T_Full == ApiTenant(<<"t", "2">>, <<"p">>, <<"P", "D">>, Arr(<<S_2>>),
                    Arr(<<E_1>>), Arr(<<C_1>>))
T_Bare == ApiTenant(<<"t", "3">>, Undefined, Undefined, NoArray, NoArray, NoArray)
T_Entries == ApiTenant(<<"t", "4">>, Undefined, Undefined, Arr(<<>>),
                       Arr(<<E_2>>), Arr(<<C_2>>))

BT_1 == <<"b", "t", "1">>
BT_3 == <<"b", "t", "3">>

\* lines with and without tenants, with and without a billing-type id
ApiLineInputs ==
  {ApiLine(<<"A">>, BT_1, V_Keepit, Arr(<<T_Full>>)),
   ApiLine(<<"B">>, Undefined, V_Contoso, Arr(<<T_Bare, T_Entries>>)),
   ApiLine(<<"C">>, BT_3, V_Microsoft, NoArray),
   ApiLine(<<"D">>, BT_3, V_Microsoft, Arr(<<>>))}

ApiLinesInputs ==
  {<<ApiLine(<<"A">>, bt[1], bt[2], Arr(<<t>>))>> :
     bt \in {<<BT_1, V_Keepit>>}, t \in ApiTenantInputs}
  \cup SeqsUpTo(ApiLineInputs, MaxLines)

\* the clock, and due dates before, on and after its day
ClockInput == IsoTimestamp(2026, 2, 1, 10)
DueDateInputs ==
  {IsoDate(2025, 12, 31), IsoDate(2026, 1, 31), IsoDate(2026, 2, 1),
   IsoDate(2026, 2, 2)}
RemainingInputs == {Num(0), Num(125)}

ApiInvoice(invoiceNo, postingDate, remaining, dueDate, lines) ==
  [invoiceNo |-> invoiceNo, postingDate |-> postingDate, amount |-> Num(100),
   amountIncludingVAT |-> Num(125),
   remainingAmountIncludingVAT |-> remaining, dueDate |-> dueDate,
   lines |-> lines]

InvoiceDetailInputs ==
  {[kind |-> "detail",
    invoice |-> ApiInvoice(<<"1">>, IsoDate(2026, 1, 1), r, due, lines),
    invoices |-> <<>>] :
     r \in RemainingInputs, due \in DueDateInputs, lines \in ApiLinesInputs}

InvoicesInputs ==
  {[kind |-> "list", invoice |-> <<>>, invoices |-> list] :
     list \in SeqsUpTo(
       {ApiInvoice(<<"1">>, posting, r, due, <<>>) :
          posting \in {IsoDate(2026, 1, 1), IsoDate(2026, 2, 1)},
          r \in RemainingInputs, due \in DueDateInputs}, MaxInvoices)}

InitMappers ==
  /\ api \in InvoiceDetailInputs \cup InvoicesInputs
  /\ mapped = <<>>
  /\ now = ClockInput
  /\ pc = "query"
  /\ subscriptions = <<>> /\ idx = 0 /\ vendorMap = <<>> /\ result = <<>>
  /\ discounts = <<>> /\ db = <<>> /\ net = {} /\ calls = 0 /\ warnings = 0
  /\ IdleService /\ IdleMetrics /\ IdleAuth /\ IdlePage

\* useInvoiceDetail: queryFn
QueryInvoiceDetail ==
  /\ pc = "query"
  /\ api.kind = "detail"
  /\ mapped' = mapInvoiceDetail(api)
  /\ pc' = "done"
  /\ UNCHANGED <<api, now, aggVars, discountVars, response, metricsVars, authVars, page>>

\* .sort((a, b) => (a.postingDate < b.postingDate ? 1 : -1)): the comparator
\* never answers 0, so the order of equal posting dates is any
IsSortedByPostingDateOf(sorted, list) ==
  /\ Len(sorted) = Len(list)
  /\ \E f \in [1..Len(list) -> 1..Len(list)] :
       /\ \A i, j \in 1..Len(list) : i # j => f[i] # f[j]
       /\ \A i \in 1..Len(list) : sorted[i] = list[f[i]]
  /\ \A i, j \in 1..Len(sorted) :
       i < j => ~StringLess(sorted[i].postingDate, sorted[j].postingDate)

\* useInvoices: queryFn
QueryInvoices ==
  /\ pc = "query"
  /\ api.kind = "list"
  /\ \E sorted \in [1..Len(api.invoices) -> {mapInvoice(inv) : inv \in
                       {api.invoices[i] : i \in 1..Len(api.invoices)}}] :
       /\ IsSortedByPostingDateOf(sorted, mapInvoices(api.invoices))
       /\ mapped' = sorted
  /\ pc' = "done"
  /\ UNCHANGED <<api, now, aggVars, discountVars, response, metricsVars, authVars, page>>

NextMappers == QueryInvoiceDetail \/ QueryInvoices

SpecMappers == InitMappers /\ [][NextMappers]_vars

(***************************************************************************)
(* Properties of the invoice mappers                                       *)
(***************************************************************************)
\* the (line, tenant) pairs of the lines of a response, in order
RECURSIVE ApiTenantPairs(_)
ApiTenantPairs(lines) ==
  IF lines = <<>> THEN <<>>
  ELSE [i \in 1..Len(Head(lines).tenants.items) |->
          [line |-> Head(lines), tenant |-> Head(lines).tenants.items[i]]]
       \o ApiTenantPairs(Tail(lines))

DetailMapped == pc = "done" /\ api.kind = "detail"

HasItems(array) == array.k = "array" /\ array.items # <<>>

StringOr(x, y) == IF x = Undefined THEN y ELSE x
NumberOr(x, y) == IF x = Undef THEN y ELSE x

\* the subscriptions come from the tenant's subscriptions array
FromSubscriptionsArray(subs, tenant) ==
  /\ Len(subs) = Len(tenant.subscriptions.items)
  /\ \A j \in 1..Len(subs) :
       LET from == tenant.subscriptions.items[j]
       IN /\ subs[j].id = from.id
          /\ subs[j].description = from.description
          /\ subs[j].amount = from.amount
          /\ Len(subs[j].entries) = Len(from.entries.items)

\* one synthetic subscription per flat entry
FromEntriesArray(subs, tenant) ==
  /\ Len(subs) = Len(tenant.entries.items)
  /\ \A j \in 1..Len(subs) :
       LET from == tenant.entries.items[j]
       IN /\ subs[j].id =
               StringOr(from.productId,
                          tenant.id \o STR_entry \o DigitsOf(j - 1))
          /\ subs[j].amount = NumberOr(from.amount, Num(0))
          /\ subs[j].licensQuantity =
               NumberOr(from.licensQuantity, NumberOr(from.quantity, Num(0)))
          /\ Len(subs[j].entries) = 1
          /\ subs[j].entries[1].amount = subs[j].amount

\* one subscription per connector
FromConnectorsArray(subs, tenant) ==
  /\ Len(subs) = Len(tenant.connectors.items)
  /\ \A j \in 1..Len(subs) :
       LET from == tenant.connectors.items[j]
           qty == NumberOr(from.quantity, tenant.quantity)
           price == NumberOr(from.unitPrice, tenant.unitPrice)
       IN /\ subs[j].id =
               StringOr(from.id,
                 StringOr(tenant.productId,
                            tenant.id \o STR_connector \o DigitsOf(j - 1)))
          /\ subs[j].amount = NumberOr(from.amount, Num(qty.n * price.n))
          /\ subs[j].licensQuantity = qty
          /\ Len(subs[j].entries) = 1

\* the single subscription made of the tenant's own fields
FromTenantFields(subs, pair) ==
  /\ Len(subs) = 1
  /\ subs[1].id = StringOr(pair.tenant.productId, pair.tenant.id)
  /\ subs[1].description =
       StringOr(pair.tenant.productDescription, pair.line.description)
  /\ subs[1].licensQuantity = pair.tenant.quantity
  /\ subs[1].amount = pair.tenant.amount
  /\ subs[1].retailAmount = pair.tenant.retailAmount
  /\ Len(subs[1].entries) = 1

\* C11: the subscriptions of every mapped tenant come from the first
\* non-empty source (the subscriptions array, the flat entries, the
\* connectors, the tenant's own fields), no later source is used when an
\* earlier one is non-empty, and the list is never empty.
C11_FallbackChain ==
  DetailMapped =>
    LET pairs == ApiTenantPairs(api.invoice.lines)
    IN /\ mapped.tenants.items = <<>> <=> pairs = <<>>
       /\ Len(mapped.tenants.items) = Len(pairs)
       /\ \A i \in 1..Len(pairs) :
            LET tenant == pairs[i].tenant
                subs == mapped.tenants.items[i].subscriptions
            IN /\ subs # <<>>
               /\ mapped.tenants.items[i].id = tenant.id
               /\ IF HasItems(tenant.subscriptions)
                  THEN FromSubscriptionsArray(subs, tenant)
                  ELSE IF HasItems(tenant.entries)
                  THEN FromEntriesArray(subs, tenant)
                  ELSE IF HasItems(tenant.connectors)
                  THEN FromConnectorsArray(subs, tenant)
                  ELSE FromTenantFields(subs, pairs[i])

\* an empty subscriptions array, two flat entries and a connector: the two
\* entries are the subscriptions
C11_Witness ==
  /\ DetailMapped
  /\ Len(api.invoice.lines) = 1
  /\ api.invoice.lines[1].tenants.items # <<>>
  /\ LET tenant == api.invoice.lines[1].tenants.items[1]
         subs == mapped.tenants.items[1].subscriptions
     IN /\ tenant.subscriptions = Arr(<<>>)
        /\ tenant.entries = Arr(<<E_2, E_1>>)
        /\ tenant.connectors = Arr(<<C_1>>)
        /\ Len(subs) = 2
        /\ subs[1].id = <<"t", "1", "-", "e", "n", "t", "r", "y", "-", "0">>
        /\ subs[2].id = <<"e", "1">>

\* C12: every subscription derived from a tenant of a line carries the
\* billing-type id and the billing-type description of that line.
C12_BillingTypeInherited ==
  DetailMapped =>
    LET pairs == ApiTenantPairs(api.invoice.lines)
    IN \A i \in 1..Len(pairs) :
         LET subs == mapped.tenants.items[i].subscriptions
         IN \A j \in 1..Len(subs) :
              /\ subs[j].billingTypeId = pairs[i].line.billingTypeId
              /\ subs[j].billingTypeDescription =
                   pairs[i].line.billingTypeDescription

\* two lines of different billing types, their tenants mapped from the
\* subscriptions array, from the tenant's own fields and from flat entries
C12_Witness ==
  /\ DetailMapped
  /\ Len(api.invoice.lines) = 2
  /\ api.invoice.lines[1].tenants = Arr(<<T_Full>>)
  /\ api.invoice.lines[2].tenants = Arr(<<T_Bare, T_Entries>>)
  /\ Len(mapped.tenants.items) = 3
  /\ mapped.tenants.items[1].subscriptions[1].billingTypeId = BT_1
  /\ mapped.tenants.items[1].subscriptions[1].billingTypeDescription = V_Keepit
  /\ mapped.tenants.items[2].subscriptions[1].billingTypeId = Undefined
  /\ mapped.tenants.items[3].subscriptions[1].billingTypeDescription = V_Contoso

\* the day, counted from the epoch, of a date or timestamp
DayOf(iso) == DateParse(iso).n \div 24

\* the status as C13 derives it
StatusAsClaimed(remaining, dueDate) ==
  IF remaining.n = 0 THEN "Paid"
  ELSE IF DayOf(dueDate) < DayOf(now) THEN "Overdue"
  ELSE "Unpaid"

MappedInvoices == {mapped[i] : i \in 1..Len(mapped)}

\* C13: in the detail mapper and in the list mapper the status is Paid
\* exactly when the remaining tax-inclusive amount is zero, otherwise Overdue
\* when the due date is strictly before the current date, otherwise Unpaid;
\* an invoice due today with a non-zero remaining amount is Unpaid.
C13_StatusDerived ==
  pc = "done" =>
    IF api.kind = "detail"
    THEN /\ mapped.status =
              StatusAsClaimed(api.invoice.remainingAmountIncludingVAT,
                              api.invoice.dueDate)
         /\ (DayOf(api.invoice.dueDate) = DayOf(now)
             /\ api.invoice.remainingAmountIncludingVAT # Num(0))
              => mapped.status = "Unpaid"
    ELSE /\ Len(mapped) = Len(api.invoices)
         /\ \A j \in 1..Len(api.invoices) :
              LET inv == api.invoices[j]
              IN [invoiceNumber |-> inv.invoiceNo,
                  postingDate |-> inv.postingDate,
                  amount |-> inv.amount,
                  amountInclVat |-> inv.amountIncludingVAT,
                  dueDate |-> inv.dueDate,
                  status |-> StatusAsClaimed(inv.remainingAmountIncludingVAT,
                                             inv.dueDate)] \in MappedInvoices
         /\ \A m \in MappedInvoices :
              \E j \in 1..Len(api.invoices) :
                /\ api.invoices[j].dueDate = m.dueDate
                /\ m.status = StatusAsClaimed(
                     api.invoices[j].remainingAmountIncludingVAT, m.dueDate)

\* a list of an invoice due today and an invoice due the day before, both
\* with a remaining amount: Unpaid and Overdue
C13_Witness ==
  /\ pc = "done"
  /\ api.kind = "list"
  /\ Len(mapped) = 2
  /\ \A j \in 1..2 : api.invoices[j].remainingAmountIncludingVAT = Num(125)
  /\ \E i, j \in 1..2 :
       /\ mapped[i].dueDate = IsoDate(2026, 2, 1) /\ mapped[i].status = "Unpaid"
       /\ mapped[j].dueDate = IsoDate(2026, 1, 31) /\ mapped[j].status = "Overdue"

(***************************************************************************)
(* calculateBillingMetrics and calculateAgingBuckets                       *)
(***************************************************************************)
\* an invoices argument that is null
NullArray == [k |-> "null", items |-> <<>>]

\* Array.isArray(invoices) ? invoices : []
safeInvoices(list) == IF list.k = "array" THEN list.items ELSE <<>>

getIsoMonth(value) == slice(value, 7)

\* a / b for a count b > 0: the quotient, kept as a fraction
Divide(a, b) ==
  IF a.k = "number" THEN [k |-> "number", num |-> a.n, den |-> b]
  ELSE [k |-> "NaN", num |-> 0, den |-> 1]

Zero == [k |-> "number", num |-> 0, den |-> 1]

\* variant: the tax-inclusive amount whatever the mode
invoiceAmount_InclVatOnly(inv, amountMode) ==
  Coalesce(inv.amountInclVat, Coalesce(inv.amount, Num(0)))

invoiceAmount(inv, amountMode) ==
  IF amountMode = "inclVat"
  THEN Coalesce(inv.amountInclVat, Coalesce(inv.amount, Num(0)))
  ELSE Coalesce(inv.amount, Coalesce(inv.amountInclVat, Num(0)))

\* the reducer of calculateBillingMetrics
metricsReducer(acc, inv, amountMode, currentMonthIso) ==
  LET amount == invoiceAmount(inv, amountMode)
      isOpen == inv.status = "Unpaid" \/ inv.status = "Overdue"
      inMonth == getIsoMonth(inv.postingDate) = currentMonthIso
  IN [totalInvoiced |-> Plus(acc.totalInvoiced, amount),
      invoiceCount |-> acc.invoiceCount + 1,
      invoiceAmountSum |-> Plus(acc.invoiceAmountSum, amount),
      balanceDue |-> IF isOpen THEN Plus(acc.balanceDue, amount)
                     ELSE acc.balanceDue,
      openInvoiceCount |-> IF isOpen THEN acc.openInvoiceCount + 1
                           ELSE acc.openInvoiceCount,
      overdueAmount |-> IF inv.status = "Overdue"
                        THEN Plus(acc.overdueAmount, amount)
                        ELSE acc.overdueAmount,
      currentMonthVolume |-> IF inMonth
                             THEN Plus(acc.currentMonthVolume, amount)
                             ELSE acc.currentMonthVolume,
      paidThisMonth |-> IF inMonth /\ inv.status = "Paid"
                        THEN Plus(acc.paidThisMonth, amount)
                        ELSE acc.paidThisMonth]

RECURSIVE reduceMetrics(_, _, _, _)
reduceMetrics(acc, list, amountMode, currentMonthIso) ==
  IF list = <<>> THEN acc
  ELSE reduceMetrics(metricsReducer(acc, Head(list), amountMode, currentMonthIso),
                     Tail(list), amountMode, currentMonthIso)

calculateBillingMetrics(list, amountMode) ==
  LET currentMonthIso == getIsoMonth(now)
      aggregate ==
        reduceMetrics([totalInvoiced |-> Num(0), balanceDue |-> Num(0),
                       overdueAmount |-> Num(0), currentMonthVolume |-> Num(0),
                       paidThisMonth |-> Num(0), openInvoiceCount |-> 0,
                       invoiceAmountSum |-> Num(0), invoiceCount |-> 0],
                      safeInvoices(list), amountMode, currentMonthIso)
  IN [totalInvoiced |-> aggregate.totalInvoiced,
      balanceDue |-> aggregate.balanceDue,
      overdueAmount |-> aggregate.overdueAmount,
      currentMonthVolume |-> aggregate.currentMonthVolume,
      paidThisMonth |-> aggregate.paidThisMonth,
      openInvoiceCount |-> aggregate.openInvoiceCount,
      averageInvoice |->
        IF aggregate.invoiceCount > 0
        THEN Divide(aggregate.invoiceAmountSum, aggregate.invoiceCount)
        ELSE Zero]

\* Math.floor((from.getTime() - new Date(toIso).getTime()) / MS_PER_DAY),
\* the times being in hours
diffInDays(from, toIso) ==
  LET due == DateParse(toIso)
  IN IF from.k = "number" /\ due.k = "number"
     THEN Num((from.n - due.n) \div 24)
     ELSE NaN

\* a <= b on numbers: false when an operand is NaN
LessOrEqual(a, b) == a.k = "number" /\ a.n <= b

\* variant: the upper bounds are exclusive
bucketOf_Exclusive(daysPastDue) ==
  IF (daysPastDue.k = "number" /\ daysPastDue.n < 30) THEN "0-30"
  ELSE IF (daysPastDue.k = "number" /\ daysPastDue.n < 60) THEN "31-60"
  ELSE IF (daysPastDue.k = "number" /\ daysPastDue.n < 90) THEN "61-90"
  ELSE "90+"

bucketOf(daysPastDue) ==
  IF LessOrEqual(daysPastDue, 30) THEN "0-30"
  ELSE IF LessOrEqual(daysPastDue, 60) THEN "31-60"
  ELSE IF LessOrEqual(daysPastDue, 90) THEN "61-90"
  ELSE "90+"

RECURSIVE reduceAging(_, _, _)
reduceAging(buckets, list, referenceDate) ==
  IF list = <<>> THEN buckets
  ELSE LET invoice == Head(list)
           bucket == bucketOf(diffInDays(referenceDate, invoice.dueDate))
       IN reduceAging(
            IF invoice.status = "Paid" THEN buckets
            ELSE [buckets EXCEPT ![bucket] = Plus(@, invoice.amountInclVat)],
            Tail(list), referenceDate)

BucketNames == {"0-30", "31-60", "61-90", "90+"}

calculateAgingBuckets(list, referenceDate) ==
  reduceAging([b \in BucketNames |-> Num(0)], safeInvoices(list), referenceDate)

(***************************************************************************)
(* The run of one call of calculateBillingMetrics or calculateAgingBuckets *)
(***************************************************************************)
Invoice(status, postingDate, dueDate, amount, amountInclVat) ==
  [status |-> status, postingDate |-> postingDate, dueDate |-> dueDate,
   amount |-> amount, amountInclVat |-> amountInclVat]

\* every status, posted in the month of the clock or the month before, with
\* both amounts, one of them or none
MetricsInvoiceInputs ==
  {Invoice(status, posting, IsoDate(2026, 2, 20), a[1], a[2]) :
     status \in {"Paid", "Unpaid", "Overdue"},
     posting \in {IsoDate(2026, 2, 10), IsoDate(2026, 1, 31)},
     a \in {<<Num(100), Num(125)>>, <<Num(40), Undef>>, <<Undef, Num(7)>>,
            <<Undef, Undef>>}}

InvoicesArguments(inputs) ==
  {NoArray, NullArray} \cup {Arr(list) : list \in SeqsUpTo(inputs, MaxInvoices)}

InitCall(inputs, clocks) ==
  /\ invoices \in InvoicesArguments(inputs)
  /\ metrics = <<>>
  /\ now \in clocks
  /\ pc = "call"
  /\ subscriptions = <<>> /\ idx = 0 /\ vendorMap = <<>> /\ result = <<>>
  /\ discounts = <<>> /\ db = <<>> /\ net = {} /\ calls = 0 /\ warnings = 0
  /\ IdleService /\ IdleMappers /\ IdleAuth /\ IdlePage

InitMetrics == InitCall(MetricsInvoiceInputs, {ClockInput})

CalculateBillingMetrics ==
  \E amountMode \in {"inclVat", "exclVat"} :
    /\ pc = "call"
    /\ metrics' = [amountMode |-> amountMode,
                   value |-> calculateBillingMetrics(invoices, amountMode)]
    /\ pc' = "done"
    /\ UNCHANGED <<invoices, now, aggVars, discountVars, response, mapperVars,
                   authVars, page>>

SpecMetrics == InitMetrics /\ [][CalculateBillingMetrics]_vars

\* due dates 1 day after and 7, 30, 31, 60, 61, 90 and 91 days before
\* 2026-02-01, and a due date that is no date
AgingDueDateInputs ==
  {IsoDate(2026, 2, 2), IsoDate(2026, 1, 25), IsoDate(2026, 1, 2),
   IsoDate(2026, 1, 1), IsoDate(2025, 12, 3), IsoDate(2025, 12, 2),
   IsoDate(2025, 11, 3), IsoDate(2025, 11, 2), <<>>}

AgingInvoiceInputs ==
  {Invoice(s[1], IsoDate(2026, 1, 1), due, Num(100), s[2]) :
     s \in {<<"Paid", Num(999)>>, <<"Unpaid", Num(100)>>, <<"Overdue", Num(20)>>},
     due \in AgingDueDateInputs}

\* the reference date at the first and in the last hour of 2026-02-01
AgingClockInputs == {IsoTimestamp(2026, 2, 1, 0), IsoTimestamp(2026, 2, 1, 23)}

InitAging == InitCall(AgingInvoiceInputs, AgingClockInputs)

CalculateAgingBuckets ==
  /\ pc = "call"
  /\ metrics' = [amountMode |-> "inclVat",
                 value |-> calculateAgingBuckets(invoices, DateParse(now))]
  /\ pc' = "done"
  /\ UNCHANGED <<invoices, now, aggVars, discountVars, response, mapperVars,
                 authVars, page>>

SpecAging == InitAging /\ [][CalculateAgingBuckets]_vars

(***************************************************************************)
(* Properties of the metrics                                               *)
(***************************************************************************)
InvoiceIndices == 1..Len(invoices.items)

\* the amount of an invoice on a basis: the preferred field, the other one
\* when the preferred is absent, 0 when both are
AmountOnBasis(inv, amountMode) ==
  LET preferred == IF amountMode = "inclVat" THEN inv.amountInclVat ELSE inv.amount
      other == IF amountMode = "inclVat" THEN inv.amount ELSE inv.amountInclVat
  IN IF IsNumber(preferred) THEN preferred.n
     ELSE IF IsNumber(other) THEN other.n
     ELSE 0

\* the sum of the amounts of the invoices of a set of indices
AmountsOver(I) ==
  SumOver(I, [i \in InvoiceIndices |->
                AmountOnBasis(invoices.items[i], metrics.amountMode)])

WithStatus(statuses) ==
  {i \in InvoiceIndices : invoices.items[i].status \in statuses}

\* posted in the month of the clock: same year and same month
PostedThisMonth ==
  {i \in InvoiceIndices :
     SubSeq(invoices.items[i].postingDate, 1, 7) = SubSeq(now, 1, 7)}

\* C14: calculateBillingMetrics equals the reference definition: the amount
\* on the basis with its fallback, totalInvoiced over all invoices,
\* balanceDue and openInvoiceCount over Unpaid and Overdue, overdueAmount over
\* Overdue, currentMonthVolume over the invoices posted in the current month
\* and paidThisMonth over the Paid ones of them, averageInvoice the total
\* divided by the number of invoices, and 0 for an empty, null or undefined
\* list.
C14_MetricsReference ==
  pc = "done" =>
    LET m == metrics.value
        count == Len(invoices.items)
    IN /\ invoices.k # "array" => count = 0
       /\ m.totalInvoiced = Num(AmountsOver(InvoiceIndices))
       /\ m.balanceDue = Num(AmountsOver(WithStatus({"Unpaid", "Overdue"})))
       /\ m.openInvoiceCount = Cardinality(WithStatus({"Unpaid", "Overdue"}))
       /\ m.overdueAmount = Num(AmountsOver(WithStatus({"Overdue"})))
       /\ m.currentMonthVolume = Num(AmountsOver(PostedThisMonth))
       /\ m.paidThisMonth =
            Num(AmountsOver(PostedThisMonth \cap WithStatus({"Paid"})))
       /\ m.averageInvoice.k = "number"
       /\ IF count = 0
          THEN m.averageInvoice.num = 0
          ELSE m.averageInvoice.num * count
                 = AmountsOver(InvoiceIndices) * m.averageInvoice.den

\* on the tax-exclusive basis: an invoice paid this month that has only the
\* tax-inclusive amount 7, and one overdue from last month with 100 / 125
C14_Witness ==
  /\ pc = "done"
  /\ metrics.amountMode = "exclVat"
  /\ invoices = Arr(<<Invoice("Paid", IsoDate(2026, 2, 10), IsoDate(2026, 2, 20),
                              Undef, Num(7)),
                      Invoice("Overdue", IsoDate(2026, 1, 31), IsoDate(2026, 2, 20),
                              Num(100), Num(125))>>)
  /\ metrics.value.totalInvoiced = Num(107)
  /\ metrics.value.balanceDue = Num(100)
  /\ metrics.value.overdueAmount = Num(100)
  /\ metrics.value.openInvoiceCount = 1
  /\ metrics.value.currentMonthVolume = Num(7)
  /\ metrics.value.paidThisMonth = Num(7)
  /\ metrics.value.averageInvoice = [k |-> "number", num |-> 107, den |-> 2]

\* floor((referenceDate - dueDate) / 1 day) of invoice i, the reference date
\* being the clock
DaysPastDue(i) ==
  (DateParse(now).n - DateParse(invoices.items[i].dueDate).n) \div 24

HasDueDate(i) == DateParse(invoices.items[i].dueDate).k = "number"

\* the bucket of invoice i by the bounds of C15; an invoice whose due date
\* is no date, for which the claim names no bucket, is counted under 90+
BucketAsClaimed(i) ==
  IF ~HasDueDate(i) THEN "90+"
  ELSE IF DaysPastDue(i) <= 30 THEN "0-30"
  ELSE IF DaysPastDue(i) \in 31..60 THEN "31-60"
  ELSE IF DaysPastDue(i) \in 61..90 THEN "61-90"
  ELSE "90+"

\* C15: every bucket of calculateAgingBuckets is the sum of the tax-inclusive
\* amounts of the non-Paid invoices whose daysPastDue falls into it: at most
\* 30, negative values included, in 0-30, 31 to 60 in 31-60, 61 to 90 in
\* 61-90, more than 90 in 90+; each non-Paid invoice is in exactly one
\* bucket and a Paid invoice in none.
C15_AgingBuckets ==
  pc = "done" =>
    /\ \A b \in BucketNames :
         metrics.value[b] =
           Num(SumOver({i \in WithStatus({"Unpaid", "Overdue"}) :
                          BucketAsClaimed(i) = b},
                       [i \in InvoiceIndices |-> invoices.items[i].amountInclVat.n]))
    /\ SumOver(BucketNames, [b \in BucketNames |-> metrics.value[b].n])
         = SumOver(WithStatus({"Unpaid", "Overdue"}),
                   [i \in InvoiceIndices |-> invoices.items[i].amountInclVat.n])

\* in the last hour of 2026-02-01: an invoice due 2026-01-02, 30 days and 23
\* hours before, is in 0-30, and one due 2026-01-01 is in 31-60
C15_Witness ==
  /\ pc = "done"
  /\ now = IsoTimestamp(2026, 2, 1, 23)
  /\ Len(invoices.items) = 2
  /\ invoices.items[1].status = "Unpaid"
  /\ invoices.items[1].dueDate = IsoDate(2026, 1, 2)
  /\ invoices.items[2].status = "Overdue"
  /\ invoices.items[2].dueDate = IsoDate(2026, 1, 1)
  /\ DaysPastDue(1) = 30 /\ DaysPastDue(2) = 31
  /\ metrics.value = [b \in BucketNames |->
                        IF b = "0-30" THEN Num(100)
                        ELSE IF b = "31-60" THEN Num(20) ELSE Num(0)]

(***************************************************************************)
(* apiClient: the request and response interceptors, useAuthStore and      *)
(* useApiHealthStore.  A token is <<kind, n>>, the empty string is <<>>.   *)
(***************************************************************************)
MaxRequests == 2

EmptyString == <<>>
InitialAccessToken == <<"access", 0>>
InitialRefreshToken == <<"refresh", 0>>

STR_SessionExpired ==
  "Din session er udloebet eller ugyldig. Opdater ACCESS/REFRESH token og proev igen."

\* useAuthStore
setTokens(state, accessToken, refreshToken) ==
  [state EXCEPT !.accessToken = accessToken, !.refreshToken = refreshToken,
                !.authError = "null"]

setAuthError(state, authError) == [state EXCEPT !.authError = authError]

\* variant: the refresh token is kept
logout_KeepsRefreshToken(state) == [state EXCEPT !.accessToken = EmptyString]

logout(state) ==
  [state EXCEPT !.accessToken = EmptyString, !.refreshToken = EmptyString]

\* useApiHealthStore
isClientErrorStatus(status) == status >= 400 /\ status <= 499
isServerErrorStatus(status) == status >= 500 /\ status <= 599

\* an error without a response has status 0
shouldMarkDisconnected(status) ==
  status = 0 \/ isServerErrorStatus(status) \/ isClientErrorStatus(status)

handleConnectivityError(status) ==
  IF shouldMarkDisconnected(status) THEN "disconnected" ELSE health

\* variant: a request may start a refresh until it has been sent three times
mayRefresh_UntilThirdSend(request, status, refreshToken) ==
  status = 401 /\ request.sends < 3 /\ refreshToken # EmptyString

\* error.response?.status === 401 && !originalRequest._retry && refreshToken
mayRefresh(request, status, refreshToken) ==
  status = 401 /\ ~request.retry /\ refreshToken # EmptyString

\* the request interceptor: the header a request leaves with
withAuthorization(header) ==
  IF auth.accessToken # EmptyString THEN auth.accessToken ELSE header

InitAuth ==
  /\ auth \in [accessToken : {EmptyString, InitialAccessToken},
               refreshToken : {EmptyString, InitialRefreshToken},
               authError : {"null"}]
  /\ requests = <<>>
  /\ exchanges = {}
  /\ health = "unknown"
  /\ pc = "idle"
  /\ now = <<>>
  /\ subscriptions = <<>> /\ idx = 0 /\ vendorMap = <<>> /\ result = <<>>
  /\ discounts = <<>> /\ db = <<>> /\ net = {} /\ calls = 0 /\ warnings = 0
  /\ IdleService /\ IdleMappers /\ IdleMetrics /\ IdlePage

authFrame ==
  <<pc, now, aggVars, discountVars, response, mapperVars, metricsVars, page>>

\* apiClient(config): a new request leaves with the current access token
SendRequest ==
  /\ Len(requests) < MaxRequests
  /\ requests' = Append(requests,
       [pc |-> "sent", retry |-> FALSE, sends |-> 1, refreshes |-> 0,
        authorization |-> withAuthorization(EmptyString)])
  /\ UNCHANGED <<auth, exchanges, health, authFrame>>

\* the response interceptor, on a response
OnFulfilled(i) ==
  /\ requests[i].pc = "sent"
  /\ health' = "connected"
  /\ auth' = setAuthError(auth, "null")
  /\ requests' = [requests EXCEPT ![i].pc = "resolved"]
  /\ UNCHANGED <<exchanges, authFrame>>

\* the response interceptor, on an error, up to the await of the exchange
OnRejected(i, status) ==
  /\ requests[i].pc = "sent"
  /\ IF mayRefresh(requests[i], status, auth.refreshToken)
     THEN /\ requests' = [requests EXCEPT ![i].retry = TRUE,
                                          ![i].refreshes = @ + 1,
                                          ![i].pc = "refreshing"]
          /\ exchanges' = exchanges \cup
               {[request |-> i, refreshToken |-> auth.refreshToken]}
          /\ UNCHANGED <<auth, health>>
     ELSE /\ health' = handleConnectivityError(status)
          /\ requests' = [requests EXCEPT ![i].pc = "rejected"]
          /\ UNCHANGED <<auth, exchanges>>
  /\ UNCHANGED authFrame

\* the exchange answers with an access token, with or without a refresh
\* token: the tokens are stored and the request is sent again
ExchangeFulfilled(i, withRefreshToken) ==
  \E e \in exchanges :
    /\ e.request = i
    /\ LET refreshedAccessToken == <<"access", i>>
           refreshedRefreshToken ==
             IF withRefreshToken THEN <<"refresh", i>> ELSE e.refreshToken
       IN /\ auth' = setTokens(auth, refreshedAccessToken, refreshedRefreshToken)
          /\ requests' = [requests EXCEPT
               ![i].pc = "sent",
               ![i].sends = @ + 1,
               ![i].authorization = refreshedAccessToken]
    /\ exchanges' = exchanges \ {e}
    /\ UNCHANGED <<health, authFrame>>

\* the exchange fails (status 0: no response), or answers without an access
\* token (the thrown Error carries no response): the catch block
ExchangeFailed(i, status) ==
  \E e \in exchanges :
    /\ e.request = i
    /\ health' = handleConnectivityError(status)
    /\ auth' = setAuthError(logout(auth), STR_SessionExpired)
    /\ requests' = [requests EXCEPT ![i].pc = "rejected"]
    /\ exchanges' = exchanges \ {e}
    /\ UNCHANGED authFrame

ErrorStatuses == {0, 401, 500}

Responses ==
  \E i \in DOMAIN requests :
    \/ OnFulfilled(i)
    \/ \E status \in ErrorStatuses : OnRejected(i, status)
    \/ \E withRefreshToken \in BOOLEAN : ExchangeFulfilled(i, withRefreshToken)
    \/ \E status \in ErrorStatuses : ExchangeFailed(i, status)

NextAuth == SendRequest \/ Responses

SpecAuth == InitAuth /\ [][NextAuth]_vars

\* every request in flight and every exchange in flight is answered
SpecAuthFair == SpecAuth /\ WF_vars(Responses)

(***************************************************************************)
(* Properties of the 401 handling.                                         *)
(***************************************************************************)
Settled(i) ==
  i \in DOMAIN requests /\ requests[i].pc \in {"resolved", "rejected"}

\* the re-sent request i answers 401
ResentAnswers401(i) ==
  /\ requests[i].pc = "sent"
  /\ requests[i].sends = 2
  /\ OnRejected(i, 401)

\* C16: a request sent through apiClient starts at most one refresh-token
\* exchange and is sent at most twice; when the re-sent request answers 401
\* it is rejected with no further exchange and no further send; and every
\* request is eventually resolved or rejected.
C16_SingleRetry ==
  /\ [](\A i \in DOMAIN requests :
          requests[i].refreshes <= 1 /\ requests[i].sends <= 2)
  /\ [][\A i \in DOMAIN requests :
          ResentAnswers401(i) =>
            /\ requests'[i].pc = "rejected"
            /\ requests'[i].sends = 2
            /\ requests'[i].refreshes = 1
            /\ exchanges' = exchanges]_vars
  /\ \A i \in 1..MaxRequests :
       [](i \in DOMAIN requests => <>Settled(i))

\* a request was refreshed, re-sent and then rejected while a refresh token
\* was still stored
C16_Witness ==
  \E i \in DOMAIN requests :
    /\ requests[i].pc = "rejected"
    /\ requests[i].sends = 2
    /\ requests[i].refreshes = 1
    /\ auth.refreshToken # EmptyString
    /\ exchanges = {}


\* C17: at any moment at most one refresh-token exchange is in flight.
C17_SerializedAsStated == Cardinality(exchanges) <= 1

\* two requests answered 401 have each started an exchange of the same
\* refresh token
C17_TwoExchanges ==
  \E e1, e2 \in exchanges :
    e1.request # e2.request /\ e1.refreshToken = e2.refreshToken

LoggedOut ==
  [accessToken |-> EmptyString, refreshToken |-> EmptyString,
   authError |-> STR_SessionExpired]

\* C18: when the exchange started for a request fails, or answers without an
\* access token, both tokens are cleared, authError becomes the
\* session-expired message, and the request is rejected and not sent again.
C18_RefreshFailureLogsOut ==
  [][\A i \in DOMAIN requests : \A status \in ErrorStatuses :
       ExchangeFailed(i, status) =>
         /\ auth' = LoggedOut
         /\ requests'[i].pc = "rejected"
         /\ requests'[i].sends = requests[i].sends
         /\ exchanges' \subseteq exchanges]_vars

\* a request whose exchange failed: rejected after one send, logged out
C18_Witness ==
  \E i \in DOMAIN requests :
    /\ requests[i].pc = "rejected"
    /\ requests[i].refreshes = 1
    /\ requests[i].sends = 1
    /\ auth = LoggedOut

(***************************************************************************)
(* Properties of the optimistic write.                                     *)
(***************************************************************************)
\* the value setDiscountRate leaves in the cache for a rate entered
NormalizedRate(rate) ==
  IF rate.k \in {"null", "NaN"} THEN Undef
  ELSE Num(roundToCents(clampRate(rate.n)))

\* the PUT or DELETE of the call just made is in flight, unanswered
WriteInFlight ==
  \E m \in net' \ net : m.type \in {"PUT", "DELETE"} /\ m.id = calls'

\* a PUT or DELETE is answered by the service without an error
WriteSucceeds ==
  /\ ServicePut \/ ServiceDelete
  /\ \A m \in net' : m.type # "FAILED" \/ m \in net

\* C19: setDiscountRate changes the cache in the step that sends the PUT or
\* DELETE; the catch of a failed write keeps the cache, logs a warning and
\* puts a fetch in flight, whose answer (the service's rows) replaces the
\* cache; a successful write changes neither the cache nor the fetches in
\* flight and logs nothing.
C19_OptimisticWrite ==
  /\ [][\A row \in RenderedRows, rate \in RateInputs :
          setDiscountRate(T_1, row[1], row[2], rate) =>
            /\ getDiscountRateIn(discounts', T_1, row[1], row[2])
                 = NormalizedRate(rate)
            /\ WriteInFlight]_vars
  /\ [][PersistCatch =>
          /\ discounts' = discounts
          /\ warnings' = warnings + 1
          /\ GetRequest \in net']_vars
  /\ [][ServiceGet => GetResponse(db) \in net']_vars
  /\ [][FetchSettled =>
          \E m \in net \ net' :
            m.type = "GET_RESPONSE" /\ discounts' = m.snapshot]_vars
  /\ [][WriteSucceeds =>
          /\ discounts' = discounts
          /\ warnings' = warnings
          /\ InFlightGets' = InFlightGets]_vars

\* a failed write was logged and a fetch is in flight, while the cache still
\* holds the rate the service does not have
C19_Witness ==
  /\ warnings = 1
  /\ GetRequest \in net
  /\ getDiscountRate(T_1, V_Keepit, L_Q) = Num(33460)
  /\ Lookup(db, T_1, service_makeProductKey(V_Keepit, L_Q)) = Undef

(***************************************************************************)
(* The discount service on its own: any client may send POST, PATCH, PUT   *)
(* and DELETE with any JSON body.                                          *)
(***************************************************************************)
STR_Blank == <<" ">>

Body(tenantId, vendorName, productName, rate) ==
  [tenantId |-> tenantId, vendorName |-> vendorName,
   productName |-> productName, rate |-> rate]

\* bodies with three names and a rate: 33.456 and 150, for two vendors
CompleteBodies ==
  {Body(T_1, v, L_Q, r) : v \in {V_Keepit, N_NickPadded},
                          r \in {Num(33456), Num(150000)}}

\* bodies with a name that is blank, empty or absent (a value that is not a
\* string is parsed like an absent one), or with a rate that is null, absent
\* or a string
IncompleteBodies ==
  {Body(STR_Blank, V_Keepit, L_Q, Num(33456)),
   Body(Undefined, V_Keepit, L_Q, Num(33456)),
   Body(T_1, <<>>, L_Q, Num(33456)),
   Body(T_1, V_Keepit, Undefined, Num(33456)),
   Body(T_1, V_Keepit, L_Q, Null),
   Body(T_1, V_Keepit, L_Q, NonNumber)}

BodyInputs == CompleteBodies \cup IncompleteBodies

InitService ==
  /\ db = EmptyState
  /\ response = <<>>
  /\ pc = "serve"
  /\ subscriptions = <<>> /\ idx = 0 /\ vendorMap = <<>> /\ result = <<>>
  /\ discounts = EmptyState /\ net = {} /\ calls = 0 /\ warnings = 0
  /\ IdleMappers /\ IdleClock /\ IdleMetrics /\ IdleAuth /\ IdlePage

\* a handler runs to its response; better-sqlite3 is synchronous
Handle(method, body, answer) ==
  /\ pc = "serve"
  /\ db' = answer.rows
  /\ response' = [method |-> method, body |-> body, status |-> answer.status]
  /\ UNCHANGED <<discounts, net, calls, warnings, pc, aggVars, mapperVars, now,
                 metricsVars, authVars, page>>

HandlePost == \E body \in BodyInputs : Handle("POST", body, app_post(db, body))
HandlePatch == \E body \in BodyInputs : Handle("PATCH", body, app_patch(db, body))
HandlePut == \E body \in BodyInputs : Handle("PUT", body, app_put(db, body))
HandleDelete == \E body \in BodyInputs : Handle("DELETE", body, app_delete(db, body))

NextService == HandlePost \/ HandlePatch \/ HandlePut \/ HandleDelete

SpecService == InitService /\ [][NextService]_vars

(***************************************************************************)
(* Properties of the discount service.                                     *)
(***************************************************************************)
\* a string that is not empty
IsNonEmpty(x) == x # Undefined /\ x # <<>>

\* a string with a character that is not white space
IsNonBlank(x) == x # Undefined /\ trim(x) # <<>>

\* the rate the service stores for a rate sent: clamped to 0..100, to cents
StoredRate(rate) ==
  IF rate.n < 0 THEN 0
  ELSE IF rate.n > 100000 THEN 100000
  ELSE ((rate.n + 5) \div 10) * 10

\* the row a body names: the trimmed tenant and the lower-cased key
RowOf(body) ==
  <<trim(body.tenantId),
    toLowerCase(trim(body.vendorName) \o <<":", ":">> \o trim(body.productName))>>

\* the status rules of the four methods, for a request whose body is
\* complete when Named holds of each of its three names
StatusRules(Named(_)) ==
  LET method == response'.method
      body == response'.body
      status == response'.status
      complete ==
        /\ Named(body.tenantId) /\ Named(body.vendorName)
        /\ Named(body.productName)
        /\ method # "DELETE" => body.rate.k = "number"
      existed == RowOf(body) \in DOMAIN db
      stored == /\ RowOf(body) \in DOMAIN db'
                /\ db'[RowOf(body)] = StoredRate(body.rate)
                /\ \A q \in DOMAIN db \ {RowOf(body)} :
                     q \in DOMAIN db' /\ db'[q] = db[q]
                /\ DOMAIN db' \subseteq DOMAIN db \cup {RowOf(body)}
  IN /\ status >= 400 => db' = db
     /\ ~complete => status = 400
     /\ complete =>
          CASE method = "POST" ->
                 IF existed THEN status = 409 ELSE status = 201 /\ stored
            [] method = "PATCH" ->
                 IF existed THEN status = 200 /\ stored ELSE status = 404
            [] method = "PUT" -> status = 200 /\ stored
            [] method = "DELETE" ->
                 /\ status = 204
                 /\ db' = [q \in DOMAIN db \ {RowOf(body)} |-> db[q]]

\* C20: a request answered with an error leaves the rows unchanged; a body
\* lacking a non-blank tenantId, vendorName or productName (or, except for
\* DELETE, a numeric rate) answers 400; otherwise POST answers 409 for an
\* existing row, PATCH 404 for a missing one, PUT stores the rate and DELETE
\* answers 204, whether or not the row existed.
C20_ErrorsLeaveRows == [][NextService => StatusRules(IsNonBlank)]_vars

\* the same with names that are merely non-empty, as stated
C20_RulesAsStated == [][NextService => StatusRules(IsNonEmpty)]_vars

\* a POST for an existing row was answered 409 and the row kept its rate
C20_Witness ==
  /\ response # <<>>
  /\ response.method = "POST"
  /\ response.status = 409
  /\ response.body.rate = Num(150000)
  /\ RowOf(response.body) \in DOMAIN db
  /\ db[RowOf(response.body)] = 33460

(***************************************************************************)
(* Aggregation of subscriptions whose numeric fields are absent, null, a   *)
(* string or NaN, as a JSON response or a caller may supply them.          *)
(***************************************************************************)
\* licensQuantity, amount and retailAmount of a subscription
MalformedNumbers ==
  {<<Num(2), Num(50), Num(120)>>,
   <<Null, Null, Null>>,
   <<Undef, NonNumber, Undef>>,
   <<NonNumber, Num(50), Num(120)>>,
   <<Num(2), NaN, Num(120)>>,
   <<Num(2), Num(50), NaN>>}

E_Malformed == Entry(Undefined, Undefined, Undefined, Null, NonNumber, NaN, Undef)

MalformedInputs ==
  {Sub(bt, L_Px, L_Px, n[1], n[2], n[3], es) :
     bt \in {V_Keepit, V_Contoso},
     n \in MalformedNumbers,
     es \in {<<>>, <<E_Malformed>>}}

InitMalformed == InitAggregate(MalformedInputs)
SpecMalformed == InitMalformed /\ [][NextAggregate]_vars

IsFiniteNumber(v) == v.k = "number"

\* every sum of the result is a finite number
TotalsFinite(vendors) ==
  \A v \in DOMAIN vendors :
    /\ IsFiniteNumber(vendors[v].totalLicenses)
    /\ IsFiniteNumber(vendors[v].totalAmount)
    /\ \A p \in DOMAIN vendors[v].products :
         LET product == vendors[v].products[p]
         IN /\ IsFiniteNumber(product.licenses)
            /\ IsFiniteNumber(product.amount)
            /\ IsFiniteNumber(product.costAmount)
            /\ \A d \in DOMAIN product.details :
                 /\ IsFiniteNumber(product.details[d].licenses)
                 /\ IsFiniteNumber(product.details[d].amount)

\* C21: whatever the numeric fields of the subscriptions and entries hold,
\* every total of the result of aggregateVendorsFromSubscriptions is a finite
\* number.
C21_TotalsFiniteAsStated == pc = "done" => TotalsFinite(result)

\* one subscription whose quantity is a string: the licenses are a string
C21_StringTotal ==
  /\ pc = "done"
  /\ Len(subscriptions) = 1
  /\ subscriptions[1].licensQuantity = NonNumber
  /\ subscriptions[1].entries = <<>>
  /\ result[1].totalLicenses = NonNumber

(***************************************************************************)
(* Detail rows: entries that differ in description, tags, white space, and *)
(* entries whose values hold the separator of the row key.                 *)
(***************************************************************************)
L_QPadded == <<" ", "Q">>
L_QBarM == <<"Q", "|", "M">>
T_MBar == <<"M", "|">>

E_Detail(desc, billing, commitment, lic, qty) ==
  Entry(desc, billing, commitment, lic, qty, Num(4), Undef)

E_QMY == E_Detail(L_Q, T_M, T_Y, Num(1), Undef)
E_QMYPadded == E_Detail(L_QPadded, T_M, T_Y, Num(1), Undef)
E_QM == E_Detail(L_Q, T_M, Undefined, Undef, Num(2))
E_MY == E_Detail(Undefined, T_M, T_Y, Num(1), Undef)
E_PxMY == E_Detail(L_Px, T_M, T_Y, Num(1), Undef)
E_QBarM == E_Detail(L_QBarM, Undefined, T_Y, Num(1), Undef)
E_QMBar == E_Detail(L_Q, T_MBar, T_Y, Num(1), Undef)

DetailEntryInputs ==
  {<<E_QMY>>, <<E_QMYPadded>>, <<E_QM>>, <<E_MY>>, <<E_PxMY>>, <<E_QBarM>>,
   <<E_QMBar>>, <<E_QMY, E_QMYPadded>>, <<E_QMY, E_QM>>, <<E_MY, E_PxMY>>,
   <<E_QBarM, E_QMBar>>, <<E_QMY, E_QMY>>, <<>>}

DetailInputs ==
  {Sub(V_Contoso, L_Px, L_Px, Num(1), Num(10), Num(20), es) :
     es \in DetailEntryInputs}
  \cup {Sub(V_Contoso, L_Q, L_Q, Num(1), Num(10), Num(20), <<E_MY>>),
        Sub(V_Keepit, L_Px, L_Px, Num(1), Num(10), Num(20), <<E_QMY>>)}

InitDetails == InitAggregate(DetailInputs)
SpecDetails == InitDetails /\ [][NextAggregate]_vars

\* the (subscription, entry) positions merged into product p of vendor v
EntriesOfProduct(v, p) ==
  {x \in SubsOfProduct(v, p) \X (1..2) :
     x[2] \in DOMAIN subscriptions[x[1]].entries}

EntryAt(x) == subscriptions[x[1]].entries[x[2]]

\* the three values of an entry, as given
TripleAsGiven(x) ==
  <<EntryAt(x).description, EntryAt(x).billing, EntryAt(x).commitment>>

AbsentAsEmpty(s) == IF s = Undefined THEN <<>> ELSE s

\* the label of the row of an entry: its trimmed description, the product
\* label of its subscription when that is empty
RowLabel(x) ==
  LET d == EntryAt(x).description
  IN IF d # Undefined /\ trim(d) # <<>> THEN trim(d)
     ELSE formatProductLabel(rawProductLabelOf(subscriptions[x[1]]))

\* the row label and the two tags joined by "|", an absent tag being empty
JoinedKey(x) ==
  RowLabel(x) \o <<"|">> \o AbsentAsEmpty(EntryAt(x).billing)
              \o <<"|">> \o AbsentAsEmpty(EntryAt(x).commitment)

\* the first present of licensQuantity, quantity and days, else 0
EntryLicensesOf(x) ==
  LET e == EntryAt(x)
  IN IF e.licensQuantity.k = "number" THEN e.licensQuantity.n
     ELSE IF e.quantity.k = "number" THEN e.quantity.n
     ELSE IF e.days.k = "number" THEN e.days.n ELSE 0

EntryAmountOf(x) == NumberOrZero(EntryAt(x).amount)

\* the details of product p hold one row per value of Key among the entries
\* of the product, with the sums of the entries of that value
OneRowPer(v, p, Key(_)) ==
  LET entries == EntriesOfProduct(v, p)
      keys == {Key(x) : x \in entries}
  IN /\ Len(p.details) = Cardinality(keys)
     /\ \A k \in keys :
          LET group == {x \in entries : Key(x) = k}
          IN \E d \in DOMAIN p.details :
               /\ p.details[d].licenses =
                    Num(SumOver(group, [x \in group |-> EntryLicensesOf(x)]))
               /\ p.details[d].amount =
                    Num(SumOver(group, [x \in group |-> EntryAmountOf(x)]))
               /\ \E x \in group :
                    /\ p.details[d].label = RowLabel(x)
                    /\ AbsentAsEmpty(p.details[d].billing)
                         = AbsentAsEmpty(EntryAt(x).billing)
                    /\ AbsentAsEmpty(p.details[d].commitment)
                         = AbsentAsEmpty(EntryAt(x).commitment)

\* C22 as stated: one row per distinct (description, billing, commitment)
\* among the entries of a product, with the sums of its entries.
C22_RowsAsStated ==
  pc = "done" =>
    \A vi \in 1..Len(result) : \A pi \in 1..Len(result[vi].products) :
      OneRowPer(result[vi], result[vi].products[pi], TripleAsGiven)

\* C22: within each product the details hold one row per distinct row key
\* among the entries, the key being the trimmed description (the product
\* label when empty) and the two tags (empty when absent) joined by "|";
\* the row's licenses and amount are the sums over the entries of that key.
C22_RowsPerKey ==
  pc = "done" =>
    \A vi \in 1..Len(result) : \A pi \in 1..Len(result[vi].products) :
      OneRowPer(result[vi], result[vi].products[pi], JoinedKey)

\* two subscriptions of one product with three entries in two rows, the
\* descriptions "Q" and " Q" sharing a row
C22_Witness ==
  /\ pc = "done"
  /\ Len(subscriptions) = 2
  /\ subscriptions[1].entries = <<E_QMY, E_QMYPadded>>
  /\ subscriptions[2].entries = <<E_QM>>
  /\ Len(result) = 1
  /\ Len(result[1].products) = 1
  /\ Len(result[1].products[1].details) = 2

(***************************************************************************)
(* The license count of a subscription of the subscriptions array: with    *)
(* and without a count of its own, with entries whose quantities sum to a  *)
(* number, to zero, and without entries.                                   *)
(***************************************************************************)
E_Zero == ApiEntry(<<"e", "0">>, Undefined, Num(0), Num(7), Undef)
E_None == ApiEntry(Undefined, Undefined, Undef, Undef, Num(10))

LicenseSubscriptionInputs ==
  {ApiSubscription(<<"s", "1">>, L_Q, licensQuantity, Num(40), entries) :
     licensQuantity \in {Undef, Null, Num(0), Num(3)},
     entries \in {NoArray, Arr(<<>>), Arr(<<E_1>>), Arr(<<E_1, E_2>>),
                  Arr(<<E_Zero, E_None>>)}}

LicenseDetailInputs ==
  {[kind |-> "detail",
    invoice |-> ApiInvoice(<<"1">>, IsoDate(2026, 1, 1), Num(0),
                  IsoDate(2026, 2, 1),
                  <<ApiLine(<<"A">>, BT_1, V_Keepit,
                      Arr(<<ApiTenant(<<"t", "1">>, Undefined, Undefined,
                                      Arr(subs), Arr(<<E_1>>), NoArray)>>))>>),
    invoices |-> <<>>] :
     subs \in {<<s>> : s \in LicenseSubscriptionInputs}
              \cup {<<s, t>> : s \in LicenseSubscriptionInputs,
                               t \in {S_1, S_2} \cup
                                 {u \in LicenseSubscriptionInputs :
                                    u.entries = Arr(<<E_1>>)}}}

InitLicenses ==
  /\ api \in LicenseDetailInputs
  /\ mapped = <<>>
  /\ now = ClockInput
  /\ pc = "query"
  /\ subscriptions = <<>> /\ idx = 0 /\ vendorMap = <<>> /\ result = <<>>
  /\ discounts = <<>> /\ db = <<>> /\ net = {} /\ calls = 0 /\ warnings = 0
  /\ IdleService /\ IdleMetrics /\ IdleAuth /\ IdlePage

SpecLicenses == InitLicenses /\ [][QueryInvoiceDetail]_vars

IsPresent(n) == n.k \notin {"undefined", "null"}

\* the license quantity of an API entry: licensQuantity, else quantity, else 0
ApiEntryLicenses(entry) ==
  IF IsPresent(entry.licensQuantity) THEN entry.licensQuantity.n
  ELSE IF IsPresent(entry.quantity) THEN entry.quantity.n ELSE 0

ApiEntriesSum(entries) ==
  SumSeq([i \in 1..Len(entries) |-> ApiEntryLicenses(entries[i])])

\* the sum of the entries' quantities, the number of entries when it is zero
DerivedLicenses(from) ==
  LET sum == ApiEntriesSum(from.entries.items)
  IN IF sum # 0 THEN Num(sum) ELSE Num(Len(from.entries.items))

\* the subscriptions the mapper made of the only tenant, and their sources
MappedSubscriptions == mapped.tenants.items[1].subscriptions
ApiSubscriptions == api.invoice.lines[1].tenants.items[1].subscriptions.items

\* C23 as stated: the license count of every subscription taken from the
\* subscriptions array is the sum of its entries' quantities, the number of
\* entries when the sum is zero.
C23_LicensesAsStated ==
  DetailMapped =>
    \A j \in 1..Len(ApiSubscriptions) :
      MappedSubscriptions[j].licensQuantity = DerivedLicenses(ApiSubscriptions[j])

\* C23: the license count of a subscription taken from the subscriptions
\* array is its own licensQuantity when it has one, and otherwise the sum of
\* its entries' quantities, the number of entries when the sum is zero.
C23_LicensesDerived ==
  DetailMapped =>
    /\ Len(MappedSubscriptions) = Len(ApiSubscriptions)
    /\ \A j \in 1..Len(ApiSubscriptions) :
         MappedSubscriptions[j].licensQuantity =
           IF IsPresent(ApiSubscriptions[j].licensQuantity)
           THEN ApiSubscriptions[j].licensQuantity
           ELSE DerivedLicenses(ApiSubscriptions[j])

\* a subscription without a count whose two entries sum to zero counts 2,
\* and one whose entries sum to 5 counts 5
C23_Witness ==
  /\ DetailMapped
  /\ Len(ApiSubscriptions) = 2
  /\ ApiSubscriptions[1].licensQuantity = Null
  /\ ApiSubscriptions[1].entries = Arr(<<E_Zero, E_None>>)
  /\ MappedSubscriptions[1].licensQuantity = Num(2)
  /\ ApiSubscriptions[2] = S_1
  /\ MappedSubscriptions[2].licensQuantity = Num(5)

(***************************************************************************)
(* Ordering: vendors, products and detail rows that arrive out of order,   *)
(* and labels that differ in letter case only.                             *)
(***************************************************************************)
L_q == <<"q">>

E_Labelled(desc) == Entry(desc, Undefined, Undefined, Num(1), Undef, Num(4), Undef)

OrderInputs ==
  {Sub(bt, d, d, Num(1), Num(10), Num(20), es) :
     bt \in {V_Keepit, V_Contoso, V_ADOBE},
     d \in {L_Q, L_Px, L_Nick},
     es \in {<<>>, <<E_Labelled(L_Q), E_Labelled(L_Px)>>,
             <<E_Labelled(L_q), E_Labelled(L_Q)>>}}

InitOrder == InitAggregate(OrderInputs)
SpecOrder == InitOrder /\ [][NextAggregate]_vars

\* the keys of a list are in non-decreasing collation order
NonDecreasing(keys) ==
  \A i \in 1..(Len(keys) - 1) : localeCompare(keys[i], keys[i + 1]) <= 0

VendorNames(res) == [i \in 1..Len(res) |-> res[i].vendorName]
DisplayNames(v) == [i \in 1..Len(v.products) |-> v.products[i].displayName]
DetailLabels(p) == [i \in 1..Len(p.details) |-> p.details[i].label]

\* C24: in the result the vendors are in non-decreasing collation order of
\* vendorName, the products of each vendor of displayName, and the details
\* of each product of label.
C24_SortedAtEveryLevel ==
  pc = "done" =>
    /\ NonDecreasing(VendorNames(result))
    /\ \A vi \in 1..Len(result) :
         /\ NonDecreasing(DisplayNames(result[vi]))
         /\ \A pi \in 1..Len(result[vi].products) :
              NonDecreasing(DetailLabels(result[vi].products[pi]))

\* vendors, products and details that arrived in descending order
C24_Witness ==
  /\ pc = "done"
  /\ Len(subscriptions) = 2
  /\ subscriptions[1].billingTypeDescription = V_Keepit
  /\ subscriptions[1].description = L_Q
  /\ subscriptions[1].entries = <<E_Labelled(L_q), E_Labelled(L_Q)>>
  /\ subscriptions[2].billingTypeDescription = V_Contoso
  /\ VendorNames(result) = <<V_Contoso, V_Keepit>>
  /\ DetailLabels(result[2].products[1]) = <<L_Q, L_q>>

(***************************************************************************)
(* Product labels: subscriptions with and without a description, with     *)
(* different nicknames.                                                    *)
(***************************************************************************)
NicknameInputs ==
  {Sub(V_Contoso, d, n, lic, Num(10), Num(20), <<>>) :
     d \in {L_Px, L_NcePx, Undefined, <<>>},
     n \in {L_Nick, L_Q, Undefined},
     lic \in {Num(1), Num(2)}}
  \cup {Sub(V_Keepit, L_Px, L_Nick, Num(1), Num(10), Num(20), <<>>),
        Sub(V_Keepit, Undefined, L_Px, Num(2), Num(10), Num(20), <<>>)}

InitNicknames == InitAggregate(NicknameInputs)
SpecNicknames == InitNicknames /\ [][NextAggregate]_vars

\* the product label of subscription i: made of its description, of its
\* nickname when the description is empty, of "Line item" when both are
OwnLabel(i) == formatProductLabel(trim(SubLabel(i)))

\* the subscriptions of the vendor of i whose labels name the product of i
SameProduct(i) ==
  {j \in SubIndices :
     /\ subscriptions[j].billingTypeDescription
          = subscriptions[i].billingTypeDescription
     /\ normalizeLabel(OwnLabel(j)) = normalizeLabel(OwnLabel(i))}

\* C25: the product of a subscription is named after its description, after
\* its nickname only when the description is empty; the subscriptions of a
\* vendor that share a description are one product, whatever their
\* nicknames, named after the description, with their licenses summed.
C25_DescriptionFirst ==
  pc = "done" =>
    \A i \in SubIndices :
      \E vi \in 1..Len(result) :
        /\ result[vi].vendorName = subscriptions[i].billingTypeDescription
        /\ \E pi \in 1..Len(result[vi].products) :
             LET p == result[vi].products[pi]
                 group == SameProduct(i)
             IN /\ p.displayName = OwnLabel(SetMin(group))
                /\ p.licenses = Num(SumOver(group, LicensesOf))
                /\ \A j \in SubIndices :
                     (/\ Truthy(subscriptions[i].description)
                      /\ subscriptions[j].description = subscriptions[i].description
                      /\ subscriptions[j].billingTypeDescription
                           = subscriptions[i].billingTypeDescription)
                     => j \in group

\* two subscriptions with the description "P x" and the nicknames "Nick" and
\* "Q" are one product "P x" with 3 licenses
C25_Witness ==
  /\ pc = "done"
  /\ subscriptions =
       <<Sub(V_Contoso, L_Px, L_Nick, Num(1), Num(10), Num(20), <<>>),
         Sub(V_Contoso, L_Px, L_Q, Num(2), Num(10), Num(20), <<>>)>>
  /\ Len(result) = 1
  /\ Len(result[1].products) = 1
  /\ result[1].products[1].displayName = L_Px
  /\ result[1].products[1].licenses = Num(3)

(***************************************************************************)
(* Writes that all reach the service and succeed, in any order, while no   *)
(* fetch is made.                                                          *)
(***************************************************************************)
NextWrites == CallSetDiscountRate \/ ServicePut \/ ServiceDelete

SpecWrites == InitDiscount /\ [][NextWrites]_vars

WritesCompleted == \A m \in net : m.type \notin {"PUT", "DELETE", "FAILED"}

\* C26: once every PUT and DELETE has completed, the service stores for the
\* key of Keepit's product what the cache holds for it.
C26_ConvergesAsStated ==
  WritesCompleted =>
    Lookup(db, T_1, service_makeProductKey(V_Keepit, L_Q))
      = getDiscountRate(T_1, V_Keepit, L_Q)

\* both writes succeeded; the cache holds the second rate, the service the
\* first
C26_LostUpdate ==
  /\ calls = 2
  /\ net = {}
  /\ warnings = 0
  /\ getDiscountRate(T_1, V_Keepit, L_Q) = Num(100000)
  /\ Lookup(db, T_1, service_makeProductKey(V_Keepit, L_Q)) = Num(33460)


\* request i was sent or started its exchange before the session was logged
\* out (no request leaves with a token and no exchange starts after it), and
\* this step completes it
CompletesInFlight(i) ==
  /\ \/ requests[i].pc = "refreshing"
     \/ requests[i].pc = "sent" /\ requests[i].authorization # EmptyString
  /\ requests'[i].pc # requests[i].pc

\* C27: while the session is logged out, the completion of a response or of
\* an exchange that was in flight leaves it logged out, the message set.
C27_StaysLoggedOutAsStated ==
  [][(auth = LoggedOut /\ \E i \in DOMAIN requests : CompletesInFlight(i))
       => auth' = LoggedOut]_vars

\* the exchange of request 1 failed and logged the session out; the exchange
\* of request 2 then stored its tokens and cleared the message
C27_SessionRestored ==
  /\ Len(requests) = 2
  /\ requests[1].pc = "rejected"
  /\ requests[1].refreshes = 1
  /\ requests[1].sends = 1
  /\ auth.accessToken = <<"access", 2>>
  /\ auth.authError = "null"


(***************************************************************************)
(* InvoiceDetailPage: the tenants of the invoice are filtered by the       *)
(* search text and the WL filter, grouped into one card per customer, and  *)
(* the discounts of a card are read and written under the card's id.       *)
(***************************************************************************)
\* the end of the run of digits that starts at s[j]
DigitsEnd(s, j) ==
  SetMin({e \in j..(Len(s) + 1) : e = Len(s) + 1 \/ ~IsDigit(s[e])})

\* reference.match(/wl\s*(\d+)/i)?.[1], then reference.match(/(\d+)/)?.[1]
extractWlCode(reference) ==
  IF ~Truthy(reference) THEN <<>>
  ELSE LET wl == {i \in 1..(Len(reference) - 1) :
                    /\ toLowerCaseChar(reference[i]) = "w"
                    /\ toLowerCaseChar(reference[i + 1]) = "l"
                    /\ LET j == SkipSpaces(reference, i + 2)
                       IN j <= Len(reference) /\ IsDigit(reference[j])}
           digits == {i \in 1..Len(reference) : IsDigit(reference[i])}
       IN IF wl # {}
          THEN LET j == SkipSpaces(reference, SetMin(wl) + 2)
               IN SubSeq(reference, j, DigitsEnd(reference, j) - 1)
          ELSE IF digits # {}
          THEN SubSeq(reference, SetMin(digits),
                      DigitsEnd(reference, SetMin(digits)) - 1)
          ELSE <<>>

STR_all == <<"a","l","l">>
STR_Kunde == <<"K","u","n","d","e">>

\* the values of the WL options: "all" and the codes of the tenants
buildWlOptions(tenants) ==
  {STR_all} \cup
  ({extractWlCode(tenants[i].customerReference) : i \in 1..Len(tenants)} \ {<<>>})

filteredTenants(tenants, customerSearch, wlFilter) ==
  LET normalizedSearch == toLowerCase(trim(customerSearch))
      keep(tenant) ==
        LET wlCode == extractWlCode(tenant.customerReference)
            matchesWl == wlFilter = STR_all \/ wlCode = wlFilter
            haystack == {toLowerCase(value) :
                           value \in {v \in {tenant.name, tenant.domain,
                                             tenant.customerName,
                                             tenant.customerReference} :
                                        Truthy(v)}}
            matchesSearch == \E value \in haystack :
                               includes(value, normalizedSearch)
        IN IF normalizedSearch = <<>> THEN matchesWl
           ELSE matchesSearch /\ matchesWl
  IN SelectSeq(tenants, keep)

\* a ?? b on strings
CoalesceString(a, b) == IF a = Undefined THEN b ELSE a

\* a tenant joins the group of its customer: the group keeps its id
joinGroup(existing, tenant) ==
  [existing EXCEPT
     !.domains = IF Truthy(tenant.domain)
                 THEN SetAdd(existing.domains, tenant.domain)
                 ELSE existing.domains,
     !.references = IF Truthy(tenant.customerReference)
                    THEN SetAdd(existing.references, tenant.customerReference)
                    ELSE existing.references,
     !.subscriptions = existing.subscriptions \o tenant.subscriptions]

newGroup(mapKey, tenant) ==
  [key |-> mapKey,
   id |-> tenant.id,
   name |-> CoalesceString(tenant.customerName,
                           CoalesceString(tenant.name, STR_Kunde)),
   domains |-> IF Truthy(tenant.domain) THEN <<tenant.domain>> ELSE <<>>,
   references |-> IF Truthy(tenant.customerReference)
                  THEN <<tenant.customerReference>> ELSE <<>>,
   subscriptions |-> tenant.subscriptions]

RECURSIVE groupTenants(_, _)
groupTenants(map, filtered) ==
  IF filtered = <<>> THEN map
  ELSE LET tenant == Head(filtered)
           mapKey == toLowerCase(
                       CoalesceString(tenant.customerName,
                                      CoalesceString(tenant.name, tenant.id)))
           group == IF MapHas(map, mapKey)
                    THEN joinGroup(MapGet(map, mapKey, tenant), tenant)
                    ELSE newGroup(mapKey, tenant)
       IN groupTenants(MapSet(map, mapKey, group), Tail(filtered))

\* the cards, which keep the key of their group beside the fields of the code
groupedCustomers(filtered) ==
  LET groups == groupTenants(<<>>, filtered)
  IN [index \in 1..Len(groups) |->
        [groups[index] EXCEPT
           !.id = OrElse(groups[index].id,
                         groups[index].key \o <<"-">> \o DigitsOf(index - 1))]]

\* the first page of the default size
pageSize == 5
paginatedCustomers(cards) ==
  SubSeq(cards, 1, IF Len(cards) < pageSize THEN Len(cards) ELSE pageSize)

CardsUnder(customerSearch, wlFilter) ==
  paginatedCustomers(
    groupedCustomers(filteredTenants(mapped.tenants, customerSearch, wlFilter)))

tenantCards == CardsUnder(page.customerSearch, page.wlFilter)

\* the (vendor.vendorName, product.displayName) rows of a card
CardRows(customer) ==
  LET vendors == aggregateVendorsFromSubscriptions(customer.subscriptions)
  IN {<<vendors[v].vendorName, vendors[v].products[p].displayName>> :
        <<v, p>> \in {q \in (DOMAIN vendors) \X (1..MaxSubs + 1) :
                        q[2] \in DOMAIN vendors[q[1]].products}}

\* a tenant as mapInvoiceDetail hands it to the page
PageTenant(id, name, customerName, customerReference, subs) ==
  [id |-> id, name |-> name, domain |-> Undefined,
   customerName |-> customerName, customerReference |-> customerReference,
   subscriptions |-> subs]

T_2 == <<"t", "2">>
T_3 == <<"t", "3">>
N_AcmeA == <<"A","c","m","e"," ","A">>
N_AcmeB == <<"A","c","m","e"," ","B">>
N_Acme == <<"A","c","m","e">>
N_Beta == <<"B","e","t","a">>
R_WL1 == <<"W","L"," ","1">>
R_wl2 == <<"w","l","2">>
R_Order2 == <<"P","O","-","2">>

\* one subscription of Keepit Q per tenant
PageSubscriptions ==
  <<Sub(V_Keepit, L_Q, Undefined, Num(1), Num(50), Num(120), <<>>)>>

\* a customer with a tenant under WL 1 and one under WL 2, and a customer
\* known by its tenant name only
PageTenantInputs ==
  {<<PageTenant(T_1, N_AcmeA, N_Acme, R_WL1, PageSubscriptions),
     PageTenant(T_2, N_AcmeB, N_Acme, R_wl2, PageSubscriptions),
     PageTenant(T_3, N_Beta, Undefined, r, PageSubscriptions)>> :
     r \in {R_Order2, Undefined}}

SearchInputs == {<<>>, <<" ","a","c","m","e"," ">>, <<"B">>, <<"t","a">>}

PageRateInputs == {Null, Num(33456)}

InitPage ==
  /\ \E tenants \in PageTenantInputs : mapped = [tenants |-> tenants]
  /\ page = [customerSearch |-> <<>>, wlFilter |-> STR_all]
  /\ api = <<>>
  /\ subscriptions = <<>> /\ idx = 0 /\ vendorMap = <<>> /\ result = <<>>
  /\ pc = "idle"
  /\ discounts = EmptyState
  /\ db = EmptyState
  /\ net = {}
  /\ calls = 0 /\ warnings = 0
  /\ IdleService /\ IdleClock /\ IdleMetrics /\ IdleAuth

\* onChange of the search field
setCustomerSearch ==
  /\ \E text \in SearchInputs : page' = [page EXCEPT !.customerSearch = text]
  /\ UNCHANGED <<pc, aggVars, discountVars, response, mapperVars, now,
                 metricsVars, authVars>>

\* onChange of the WL select
setWlFilter ==
  /\ \E option \in buildWlOptions(mapped.tenants) :
       page' = [page EXCEPT !.wlFilter = option]
  /\ UNCHANGED <<pc, aggVars, discountVars, response, mapperVars, now,
                 metricsVars, authVars>>

\* the discount field of a product row of a shown card
CardSetDiscountRate ==
  \E c \in DOMAIN tenantCards, rate \in PageRateInputs :
    \E row \in CardRows(tenantCards[c]) :
      setDiscountRate(tenantCards[c].id, row[1], row[2], rate)

NextPage == setCustomerSearch \/ setWlFilter \/ CardSetDiscountRate

SpecPage == InitPage /\ [][NextPage]_vars

FilterSettings == SearchInputs \X buildWlOptions(mapped.tenants)

\* the cards shown under a filter setting
CardSet(setting) ==
  LET cards == CardsUnder(setting[1], setting[2])
  IN {cards[c] : c \in DOMAIN cards}

\* the rate the card applies to a row
CardRate(customer, row) == getDiscountRate(customer.id, row[1], row[2])

\* C28: the card of a customer has the same tenant id under every filter
\* setting for which it is shown, so the discounts of the customer are read
\* and written under one id whatever the search text and the WL filter
C28_SameTenantIdAsStated ==
  \A s1 \in FilterSettings, s2 \in FilterSettings :
    \A c1 \in CardSet(s1), c2 \in CardSet(s2) :
      c1.key = c2.key => c1.id = c2.id

\* a rate stored for a customer with no filter is absent from the card of
\* the same customer under the present filter
C28_RateLost ==
  \E c1 \in CardSet(<<<<>>, STR_all>>), c2 \in CardSet(<<page.customerSearch, page.wlFilter>>) :
    /\ c1.key = c2.key
    /\ c1.id # c2.id
    /\ \E row \in CardRows(c1) :
         /\ row \in CardRows(c2)
         /\ CardRate(c1, row) = Num(33460)
         /\ CardRate(c2, row) = Undef


(***************************************************************************)
(* Conservation of the totals                                              *)
(***************************************************************************)
\* two vendors, two products (one of them under two spellings), and license
\* quantities that are present, absent or null
TotalsInputs ==
  {Sub(bt, desc, Undefined, lic, Num(50), Num(120), <<>>) :
     bt \in {V_Keepit, V_Contoso},
     desc \in {L_Px, L_Q},
     lic \in {Undef, Num(2), Num(3)}}
  \cup
  {Sub(V_Contoso, L_NcePx, Undefined, Null, Undef, Num(25), <<>>)}

InitTotals == InitAggregate(TotalsInputs)
SpecTotals == InitTotals /\ [][NextAggregate]_vars

ProductLicenses(v) == [p \in DOMAIN v.products |-> v.products[p].licenses.n]
ProductAmounts(v) == [p \in DOMAIN v.products |-> v.products[p].amount.n]
VendorLicenses == [v \in DOMAIN result |-> result[v].totalLicenses.n]

\* C29: the totalAmount of every vendor is the sum of the amounts of its
\* products and its totalLicenses the sum of their licenses, and the
\* totalLicenses of all vendors add up to the license quantities of all
\* subscriptions of the input, an absent quantity counting as 0
C29_TotalsConserved ==
  pc = "done" =>
    /\ \A v \in DOMAIN result :
         /\ result[v].totalAmount =
              Num(SumOver(DOMAIN result[v].products, ProductAmounts(result[v])))
         /\ result[v].totalLicenses =
              Num(SumOver(DOMAIN result[v].products, ProductLicenses(result[v])))
         /\ \A p \in DOMAIN result[v].products :
              /\ IsNumber(result[v].products[p].amount)
              /\ IsNumber(result[v].products[p].licenses)
    /\ SumOver(DOMAIN result, VendorLicenses) = SumOver(SubIndices, LicensesOf)

\* C29 witness: two subscriptions of one vendor in two products, 2 and 3
\* licenses, give a vendor total of 5 licenses and 100
C29_Witness ==
  /\ pc = "done"
  /\ Len(subscriptions) = 2
  /\ Len(result) = 1
  /\ Len(result[1].products) = 2
  /\ result[1].vendorName = V_Contoso
  /\ result[1].products[1].licenses = Num(2)
  /\ result[1].products[2].licenses = Num(3)
  /\ result[1].totalLicenses = Num(5)
  /\ result[1].totalAmount = Num(100)


(***************************************************************************)
(* The frame of setDiscountRate                                            *)
(***************************************************************************)
\* the updater handed to setDiscounts by the hook that keeps the rates in
\* localStorage; prev is returned when there is nothing to do
setDiscountsUpdater(prev, tenantId, vendorName, productName, rate) ==
  IF ~Truthy(tenantId) THEN prev
  ELSE LET productKey == makeProductKey(vendorName, productName)
       IN IF rate.k \in {"null", "NaN"}
          THEN Without(prev, tenantId, productKey)
          ELSE With(prev, tenantId, productKey, roundToCents(clampRate(rate.n)))

\* two tenants, and the tenant id that is undefined or empty
FrameTenantInputs == {T_1, T_2, Undefined, EmptyString}

FrameRateInputs == {Null, Num(33456), Num(150000)}

\* rates stored before the first call: none, or a rate of each tenant for a
\* product of the invoice and a rate of the first tenant for another product
StoredInputs ==
  {EmptyState,
   (<<T_1, makeProductKey(V_Keepit, L_Q)>> :> 10000)
     @@ (<<T_1, makeProductKey(V_Contoso, L_Px)>> :> 20000)
     @@ (<<T_2, makeProductKey(V_Keepit, L_Q)>> :> 30000)}

InitFrame ==
  /\ subscriptions = InvoiceInput
  /\ idx = Len(InvoiceInput)
  /\ vendorMap = foldSubscriptions(<<>>, InvoiceInput)
  /\ result = aggregateVendorsFromSubscriptions(InvoiceInput)
  /\ pc = "idle"
  /\ discounts \in StoredInputs
  /\ db = discounts
  /\ net = {}
  /\ calls = 0 /\ warnings = 0
  /\ IdleService /\ IdleMappers /\ IdleClock /\ IdleMetrics /\ IdleAuth /\ IdlePage

FrameSetDiscountRate ==
  \E tenantId \in FrameTenantInputs, row \in RenderedRows, rate \in FrameRateInputs :
    setDiscountRate(tenantId, row[1], row[2], rate)

SpecFrame == InitFrame /\ [][FrameSetDiscountRate]_vars

\* every entry but that of the tenant and product key is the same in both
SameElsewhere(before, after, tenantId, productKey) ==
  \A q \in (DOMAIN before \cup DOMAIN after) \ {<<tenantId, productKey>>} :
    /\ q \in DOMAIN before
    /\ q \in DOMAIN after
    /\ after[q] = before[q]

\* C30: a call of setDiscountRate changes at most the entry of its tenant
\* and product key, the rates of every other tenant and of every other
\* product of the tenant staying as they are; with an undefined or empty
\* tenant id it changes nothing and sends no request, and getDiscountRate
\* answers undefined
C30_Frame ==
  [][\A tenantId \in FrameTenantInputs, row \in RenderedRows, rate \in FrameRateInputs :
       setDiscountRate(tenantId, row[1], row[2], rate) =>
         LET productKey == makeProductKey(row[1], row[2])
             stored == setDiscountsUpdater(discounts, tenantId, row[1], row[2], rate)
         IN /\ SameElsewhere(discounts, discounts', tenantId, productKey)
            /\ SameElsewhere(discounts, stored, tenantId, productKey)
            /\ ~Truthy(tenantId) =>
                 /\ discounts' = discounts
                 /\ stored = discounts
                 /\ net' = net
                 /\ getDiscountRateIn(discounts', tenantId, row[1], row[2]) = Undef
                 /\ getDiscountRateIn(stored, tenantId, row[1], row[2]) = Undef
    ]_vars

\* C30 witness: of two calls one had no tenant id and sent nothing, the
\* other stored 33.46 for the first tenant's Keepit Q beside the rates that
\* were there before
C30_Witness ==
  /\ calls = 2
  /\ Cardinality(net) = 1
  /\ \A m \in net : m.type = "PUT" /\ m.tenantId = T_1
  /\ DOMAIN discounts = {<<T_1, makeProductKey(V_Keepit, L_Q)>>,
                         <<T_1, makeProductKey(V_Contoso, L_Px)>>,
                         <<T_2, makeProductKey(V_Keepit, L_Q)>>}
  /\ discounts[<<T_1, makeProductKey(V_Keepit, L_Q)>>] = 33460
  /\ discounts[<<T_1, makeProductKey(V_Contoso, L_Px)>>] = 20000
  /\ discounts[<<T_2, makeProductKey(V_Keepit, L_Q)>>] = 30000
====
